---- MODULE Spec2Model ----
(***************************************************************************)
(* Model of the conversion engine of GoMediaMinify: the run coordinator    *)
(* (Convert), the recovery phase, the worker pool (convertFiles) and the   *)
(* per-file pipeline (convertImage / convertVideo) acting on the source    *)
(* tree and on the destination tree.                                       *)
(*                                                                         *)
(* The destination tree is modelled per planned output path p by three     *)
(* files: the published file final[p], the staging file tmp[p]             *)
(* (<p>.tmp) and the marker marker[p] (<p>.processing).  A file carries    *)
(* its size in bytes and whether the decoder (magick identify / ffprobe)   *)
(* parses it.  The encoders are external programs: what an encoder         *)
(* produces for a given source is fixed per source (enc), and an encoder   *)
(* writes through the file it opened, wherever that file's name has moved  *)
(* to in the meantime (fd).                                                *)
(***************************************************************************)
EXTENDS Integers, Sequences, FiniteSets, TLC

\* ------------------------------------------------------------------ bounds
MaxRuns == 2
MaxJobs == 2

\* ------------------------------------------------------- program constants
MinSafeSize == 1000
RatioScale == 1000
RatioGeneric == 5
RatioAVIF == 1
RatioWebP == 3

PhotoFormats == {"jpg", "jpeg", "heic", "heif", "cr2", "arw", "nef", "dng",
                 "tiff", "tif", "png", "raw", "bmp", "gif", "webp"}
VideoFormats == {"mov", "mp4", "avi", "mkv", "m4v", "mts", "m2ts", "mpg",
                 "mpeg", "wmv", "flv", "3gp", "3gpp"}
PhotoFormat == "avif"

\* ------------------------------------------------------- the source tree
\* The files of the source directory in the order filepath.Walk visits
\* them.  stem is the file name without extension, date the capture date
\* GetFileDate resolves ("" when it resolves none), size the size in bytes.
SourceTree ==
  << [name |-> "a.jpg",  stem |-> "a", ext |-> "jpg",  date |-> "2024-03-15", size |-> 300000],
     [name |-> "a.webp", stem |-> "a", ext |-> "webp", date |-> "2024-03-15", size |-> 2000000],
     [name |-> "b_1.mp4", stem |-> "b_1", ext |-> "mp4", date |-> "2024-03-16", size |-> 2000000] >>

Src == 1..Len(SourceTree)

\* What the encoder does with a source, and what the decoder says of the
\* source itself:
\*   ok     exit 0, a decodable output of 2500 bytes
\*   tiny   exit 0, a decodable output of 500 bytes
\*   junk   exit 0, an output of 2500 bytes the decoder rejects
\*   fail   non-zero exit (encoder error)
\*   hang   the encoder does not end by itself: the deadline of its context
\*          (timeout_photo / timeout_video) expires and cancels it
\*   unreadable  the source itself does not decode: non-zero exit
EncOutcomes == {"ok", "tiny", "junk", "fail", "hang", "unreadable"}
EncChoices ==
  { e \in [Src -> EncOutcomes] :
      /\ e[1] \in {"ok", "tiny", "fail"}
      /\ e[2] \in {"ok", "junk", "fail", "unreadable"}
      /\ e[3] = (IF e[2] = "fail" THEN "fail"
                  ELSE IF e[2] = "unreadable" THEN "hang" ELSE "ok") }

EncExitOK(o) == o \in {"ok", "tiny", "junk"}
EncSize(o) == IF o = "tiny" THEN 500 ELSE 2500
EncDecodes(o) == o \in {"ok", "tiny"}

\* utils.HasExtension against the two configured sets
Kind(s) ==
  IF SourceTree[s].ext \in PhotoFormats THEN "photo"
  ELSE IF SourceTree[s].ext \in VideoFormats THEN "video"
  ELSE "skip"

OutExt(k) == IF k = "photo" THEN PhotoFormat ELSE "mp4"

\* The planned output: CreateDestinationPath joined with
\* CleanFilename(stem, ext, date, 1).  The counter is always 1.
OutPath(s) ==
  << Kind(s), SourceTree[s].date, SourceTree[s].stem, 1, OutExt(Kind(s)) >>

Paths == { OutPath(s) : s \in Src }

\* ------------------------------------------------------------------ files
\* ex: the file exists; size: bytes; dec: the decoder parses it; dirty: two
\* encoders have written into it.  History fields: ver (this content has
\* passed VerifyOutputFile), pre (the file was there before the first run),
\* by (the source whose encoder opened it last, 0 for none).
NoFile == [ex |-> FALSE, size |-> 0, dec |-> FALSE, ver |-> FALSE, dirty |-> FALSE, pre |-> FALSE, by |-> 0]
PreFile(sz, d) == [ex |-> TRUE, size |-> sz, dec |-> d, ver |-> FALSE, dirty |-> FALSE, pre |-> TRUE, by |-> 0]
NoMarker == [ex |-> FALSE, pid |-> 0, by |-> 0, run |-> 0]

PidOf(r) == 100 + r

\* ------------------------------------------------------------------ state
VARIABLES
  cfg,      \* configuration: keep (KeepOriginals), dry (DryRun); and the
            \* directories: under (the source directory lies below the
            \* destination root), mv (os.Rename works in the output directories)
  enc,      \* per source: what its encoder invocation produces
  run,      \* number of the current run of the tool
  mpc,      \* position of Convert in the current run
  src,      \* per source file: is it still on disk
  final,    \* per output path: the published file
  tmp,      \* per output path: <output>.tmp
  marker,   \* per output path: <output>.processing
  stats,    \* ConversionStats of the current run
  jobs,     \* files of the current pass not yet handed to a worker
  wk,       \* per worker: pc, file, err, fd (where the file its encoder
            \* has open is now), ev (events of the execution so far)
  hist,     \* history: what the checks below need to remember
  lm,       \* the AdaptiveLimiter of an adaptive video pass, its goroutines
            \* and its controller
  call      \* a function of the program called on its own: its arguments
            \* and, once it has returned, its results

pvars == << cfg, enc, run, mpc, src, final, tmp, marker, stats, jobs, wk, hist >>
vars == << cfg, enc, run, mpc, src, final, tmp, marker, stats, jobs, wk, hist, lm, call >>

W == 1..MaxJobs

ZeroStats == [total |-> 0, processed |-> 0, failed |-> 0, skipped |-> 0,
              recovered |-> 0, cleaned |-> 0, verified |-> 0]

IdleWorker == [pc |-> "idle", file |-> 0, err |-> FALSE, fd |-> "none", ev |-> << >>]

\* What a run has done to the destination: files published, encoders
\* started for an output the previous completed run left published,
\* published files deleted.
ZeroAct == [pub |-> 0, enc |-> 0, del |-> 0]

\* --------------------------------------------------- pure helper functions
Min(S) == CHOOSE x \in S : \A y \in S : x <= y

\* SecurityChecker.VerifyOutputFile: the ratio chosen for the kind and format
RatioFor(kind, format) ==
  IF kind = "photo"
  THEN IF format = "avif" THEN RatioAVIF
       ELSE IF format = "webp" THEN RatioWebP
       ELSE RatioGeneric
  ELSE RatioGeneric

\* minSize := int64(float64(inputInfo.Size()) * ratio)
MinSize(inSize, kind, format) == (inSize * RatioFor(kind, format)) \div RatioScale

\* VerifyOutputFile(inputPath, outputPath, fileType, outputFormat): the
\* error it returns ("nil" for none), its tests in the order of the code.
\* f is the file at outputPath, inp what os.Stat(inputPath) gives.
VerifyError(f, inp, kind, format) ==
  IF ~f.ex THEN "missing"
  ELSE IF f.size = 0 THEN "empty"
  ELSE IF ~inp.ex THEN "nostat"
  ELSE IF f.size < MinSize(inp.size, kind, format) THEN "small"
  ELSE IF kind \notin {"photo", "video"} THEN "unknown"
  ELSE IF ~f.dec THEN "corrupt"
  ELSE "nil"

\* VerifyOutputFile that keeps an output it found too small
VerifyRemoves_NotSmall(cause) == cause \in {"empty", "corrupt"}

\* The failures on which VerifyOutputFile calls os.Remove(outputPath)
VerifyRemoves(cause) == cause \in {"empty", "small", "corrupt"}

\* The file at outputPath when VerifyOutputFile returns
VerifyAfter(f, inp, kind, format) ==
  LET cause == VerifyError(f, inp, kind, format)
  IN IF cause = "nil" THEN [f EXCEPT !.ver = TRUE]
     ELSE IF VerifyRemoves(cause) THEN NoFile
     ELSE f

\* os.Stat of an input file that is there
Stat(size) == [ex |-> TRUE, size |-> size]

\* VerifyOutputFile returns nil (for an input that is there)
VerifyPasses(f, inSize, kind, format) ==
  VerifyError(f, Stat(inSize), kind, format) = "nil"

\* What VerifyOutputFile leaves of the output (for an input that is there)
VerifyLeaves(f, inSize, kind, format) ==
  VerifyAfter(f, Stat(inSize), kind, format)

\* SecurityChecker.IsFileCorrupted
IsFileCorrupted(f) == ~f.ex \/ f.size = 0 \/ ~f.dec

\* The processes that exist while run r executes: init and the tool itself;
\* the processes of earlier runs are gone.
LivePids(r) == {1, PidOf(r)}

\* processExists that takes a refused signal (EPERM) for a missing process
processExists_OwnOnly(pid, r) == pid > 0 /\ pid = PidOf(r)

\* processExists: kill(pid, 0) says the process is there (EPERM included)
processExists(pid, r) == pid > 0 /\ pid \in LivePids(r)

\* isMarkerAbandoned: unparseable PID line (pid = -1) or dead owner
isMarkerAbandoned(m, r) == m.pid = -1 \/ ~processExists(m.pid, r)

\* SafeDelete without the minimum-size test
SafeDeleteAllows_ExistsOnly(f) == f.ex

\* SafeDelete's predicate on the re-stat of the published output
SafeDeleteAllows(f) == f.ex /\ f.size >= MinSafeSize

\* ---------------------------------------------------------------- limiter
\* adaptive_workers.enabled is false by default: the runs of Spec have no
\* limiter.
NoLimiter == [mode |-> "off"]

\* No function is called on its own in the runs of the tool.
NoCall == [fn |-> "none"]

\* ------------------------------------------------------------------- Init
P1 == OutPath(1)
P3 == OutPath(3)
Everywhere(x) == [p \in Paths |-> x]

\* Destination trees a first run may find: empty; a valid published output;
\* a truncated 200-byte output; an orphan temp file with a marker of pid 1
\* and, next to the video output, a marker without a PID line (pid -1).
DestChoices ==
  { [final |-> Everywhere(NoFile), tmp |-> Everywhere(NoFile), marker |-> Everywhere(NoMarker)],
    [final |-> [Everywhere(NoFile) EXCEPT ![P1] = PreFile(2500, TRUE)],
     tmp |-> Everywhere(NoFile), marker |-> Everywhere(NoMarker)],
    [final |-> [Everywhere(NoFile) EXCEPT ![P1] = PreFile(200, FALSE)],
     tmp |-> Everywhere(NoFile), marker |-> Everywhere(NoMarker)],
    [final |-> Everywhere(NoFile),
     tmp |-> [Everywhere(NoFile) EXCEPT ![P1] = PreFile(700, FALSE)],
     marker |-> [Everywhere(NoMarker) EXCEPT
                   ![P1] = [ex |-> TRUE, pid |-> 1, by |-> 0, run |-> 0],
                   ![P3] = [ex |-> TRUE, pid |-> -1, by |-> 0, run |-> 0]]] }

\* What the recovery of the current run found: temp files, markers it
\* removed, corrupt outputs; err: performRecovery returned an error
NoRec == [tmps |-> 0, markers |-> 0, corrupt |-> 0, err |-> FALSE]

ZeroHist ==
  [prevEnd |-> "none", prevStats |-> ZeroStats, prevFinal |-> Everywhere(NoFile),
   startSrc |-> [s \in Src |-> TRUE], prevStartSrc |-> [s \in Src |-> TRUE],
   act |-> ZeroAct, unl |-> {}, checked |-> {},
   rec |-> NoRec]

Init ==
  /\ cfg \in [keep : BOOLEAN, dry : BOOLEAN, under : BOOLEAN, mv : BOOLEAN]
  /\ enc \in EncChoices
  /\ run = 1
  /\ mpc = "recovery"
  /\ src = [s \in Src |-> TRUE]
  /\ \E d \in DestChoices :
        /\ final = d.final
        /\ tmp = d.tmp
        /\ marker = d.marker
        /\ hist = ZeroHist
  /\ stats = ZeroStats
  /\ jobs = [photo |-> << >>, video |-> << >>]
  /\ wk = [w \in W |-> IdleWorker]
  /\ lm = NoLimiter
  /\ call = NoCall

\* ---------------------------------------------------------- file bookkeeping
\* Every encoder that has the file at place `from` of path p open follows it
\* to `to` ("gone" when the file is unlinked or replaced).
MoveFd(wks, p, from, to) ==
  [w \in W |->
     IF wks[w].file # 0 /\ OutPath(wks[w].file) = p /\ wks[w].fd = from
     THEN [wks[w] EXCEPT !.fd = to]
     ELSE wks[w]]

\* The workers other than w whose encoder is running and has the same file open
CoWriters(w) ==
  { v \in W \ {w} : /\ wk[v].pc = "encoding"
                     /\ wk[v].file # 0
                     /\ OutPath(wk[v].file) = OutPath(wk[w].file)
                     /\ wk[v].fd = wk[w].fd }

\* Statistics in which failed conversions are not counted
Bump_DropsFailed(field) ==
  IF field = "failed" THEN stats ELSE [stats EXCEPT ![field] = @ + 1]

\* c.stats.<field>++ under the mutex
Bump(field) == [stats EXCEPT ![field] = @ + 1]

\* ---------------------------------------------------------------- recovery
\* CleanupAbandonedFiles with the *.tmp branch left out
CleanupTmp_KeepsTmp(t) == t

\* CleanupAbandonedFiles: every *.tmp is removed
CleanupTmp(t) == [p \in Paths |-> NoFile]

\* CleanupAbandonedFiles: every abandoned *.processing is removed
CleanupMarkers(m, r) ==
  [p \in Paths |-> IF m[p].ex /\ isMarkerAbandoned(m[p], r) THEN NoMarker ELSE m[p]]

\* FindAbandonedMarkers
FindAbandonedMarkers(m, r) == { p \in Paths : m[p].ex /\ isMarkerAbandoned(m[p], r) }

\* verifyExistingFiles looks at *.avif, *.webp, and at *.mp4 whose path
\* contains an underscore.  Every planned output name contains one.
WalkChecksOutput(p) == p[5] \in {"avif", "webp", "mp4"}

HasUnderscore(s) == SourceTree[s].name \in {"b_1.mp4"}

WalkChecksSource(s) ==
  \/ SourceTree[s].ext \in {"avif", "webp"}
  \/ SourceTree[s].ext = "mp4" /\ HasUnderscore(s)

\* The source files verifyExistingFiles meets when the source directory lies
\* below the destination root
SourcesInWalk == { s \in Src : cfg.under /\ src[s] /\ WalkChecksSource(s) }

SourceDecodes(s) == enc[s] # "unreadable"

\* performRecovery
Recovery ==
  /\ mpc = "recovery"
  /\ UNCHANGED << lm, call >>
  /\ LET t1 == CleanupTmp(tmp)
         m1 == CleanupMarkers(marker, run)
         ab == FindAbandonedMarkers(m1, run)
         m2 == [p \in Paths |-> IF p \in ab THEN NoMarker ELSE m1[p]]
         seen == { p \in Paths : final[p].ex /\ WalkChecksOutput(p) }
         badOut == { p \in seen : IsFileCorrupted(final[p]) }
         badSrc == { s \in SourcesInWalk : ~SourceDecodes(s) }
         nbad == Cardinality(badOut) + Cardinality(badSrc)
         ngood == Cardinality(seen \ badOut) + Cardinality(SourcesInWalk \ badSrc)
     IN /\ tmp' = t1
        /\ marker' = m2
        /\ final' = [p \in Paths |-> IF p \in badOut THEN NoFile ELSE final[p]]
        /\ src' = [s \in Src |-> src[s] /\ s \notin badSrc]
        /\ stats' = [stats EXCEPT !.cleaned = @ + Cardinality(ab),
                                  !.recovered = @ + nbad,
                                  !.verified = @ + ngood]
        /\ hist' = [hist EXCEPT !.checked = seen,
                                !.rec = [tmps |-> Cardinality({p \in Paths : tmp[p].ex}),
                                         markers |-> Cardinality({p \in Paths : marker[p].ex /\ ~m2[p].ex}),
                                         corrupt |-> Cardinality(badOut),
                                         err |-> FALSE]]
  /\ mpc' = "diskcheck"
  /\ UNCHANGED << cfg, enc, run, jobs, wk >>

\* CheckDiskSpace: the free space is the environment's
DiskCheck ==
  /\ mpc = "diskcheck"
  /\ UNCHANGED << lm, call >>
  /\ \E enough \in BOOLEAN : mpc' = IF enough THEN "safety" ELSE "aborted"
  /\ UNCHANGED << cfg, enc, run, src, final, tmp, marker, stats, jobs, wk, hist >>

\* runSafetyTest: the file the walk picks (a jpg/jpeg if there is one, else
\* the first photo; 0 when there is no photo)
TestFile ==
  LET photos == { s \in Src : src[s] /\ Kind(s) = "photo" }
      jpgs == { s \in photos : SourceTree[s].ext \in {"jpg", "jpeg"} }
  IN IF jpgs # {} THEN Min(jpgs) ELSE IF photos # {} THEN Min(photos) ELSE 0

\* convertFile on the copy in <dest>/.safety_test succeeds
ProbeSucceeds(s) ==
  /\ SourceTree[s].date # ""
  /\ EncExitOK(enc[s])
  /\ VerifyPasses([NoFile EXCEPT !.ex = TRUE, !.size = EncSize(enc[s]), !.dec = EncDecodes(enc[s])],
                  SourceTree[s].size, "photo", PhotoFormat)

\* Convert going on to discovery whatever the safety test returns
AfterProbe_Continues(ok) == "discover"

\* Convert after runSafetyTest: return fmt.Errorf("safety test failed")
\* on an error, findFiles otherwise
AfterProbe(ok) == IF ok THEN "discover" ELSE "aborted"

\* runSafetyTest works on a copy in a scratch directory it removes again;
\* it is not run in dry-run mode.
SafetyTest ==
  /\ mpc = "safety"
  /\ UNCHANGED << lm, call >>
  /\ mpc' = AfterProbe(cfg.dry \/ TestFile = 0 \/ ProbeSucceeds(TestFile))
  /\ UNCHANGED << cfg, enc, run, src, final, tmp, marker, stats, jobs, wk, hist >>

\* The files of one kind in walk order
RECURSIVE FilesOfKind(_, _)
FilesOfKind(k, n) ==
  IF n = 0 THEN << >>
  ELSE IF src[n] /\ Kind(n) = k
       THEN Append(FilesOfKind(k, n - 1), n)
       ELSE FilesOfKind(k, n - 1)

\* findFiles, and c.stats.totalFiles
Discover ==
  /\ mpc = "discover"
  /\ UNCHANGED << lm, call >>
  /\ jobs' = [photo |-> FilesOfKind("photo", Len(SourceTree)),
              video |-> FilesOfKind("video", Len(SourceTree))]
  /\ stats' = [stats EXCEPT !.total = Len(jobs'.photo) + Len(jobs'.video)]
  /\ mpc' = "photo"
  /\ UNCHANGED << cfg, enc, run, src, final, tmp, marker, wk, hist >>

\* ------------------------------------------------------------- worker pool
VideoJobCap == 2

\* convertFiles: the number of workers of a pass (adaptive mode off)
PassWorkers(k) ==
  IF k = "video" /\ MaxJobs > VideoJobCap THEN VideoJobCap ELSE MaxJobs

InPass == mpc \in {"photo", "video"}

Log(w, e) == Append(wk[w].ev, e)

\* worker: for filePath := range jobs.  The workers are interchangeable:
\* of the idle ones the lowest-numbered receives.
TakeJob(w) ==
  /\ InPass
  /\ UNCHANGED << lm, call >>
  /\ w <= PassWorkers(mpc)
  /\ wk[w].pc = "idle"
  /\ \A v \in 1..(w - 1) : wk[v].pc # "idle"
  /\ jobs[mpc] # << >>
  /\ wk' = [wk EXCEPT ![w] = [IdleWorker EXCEPT !.pc = "plan", !.file = Head(jobs[mpc])]]
  /\ jobs' = [jobs EXCEPT ![mpc] = Tail(@)]
  /\ UNCHANGED << cfg, enc, run, mpc, src, final, tmp, marker, stats, hist >>

\* The pipeline with the encoder started right after the dedupe check
PcAfterDedupe_NoClaim(dry) == IF dry THEN "ret" ELSE "start"

\* Where the pipeline goes once the dedupe check is behind it
PcAfterDedupe(dry) == IF dry THEN "ret" ELSE "claim"

\* convertImage / convertVideo up to the stat of the planned output:
\* GetFileDate, CreateDestinationPath, EnsureDir, CleanFilename, os.Stat
Plan(w) ==
  /\ InPass
  /\ UNCHANGED << lm, call >>
  /\ wk[w].pc = "plan"
  /\ LET f == wk[w].file
         p == OutPath(f)
     IN wk' = [wk EXCEPT ![w] =
                 IF SourceTree[f].date = "" \/ ~src[f]
                 THEN [@ EXCEPT !.pc = "ret", !.err = TRUE]
                 ELSE IF final[p].ex
                      THEN [@ EXCEPT !.pc = "check"]
                      ELSE [@ EXCEPT !.pc = PcAfterDedupe(cfg.dry)]]
  /\ UNCHANGED << cfg, enc, run, mpc, src, final, tmp, marker, stats, jobs, hist >>

\* A pipeline that takes the valid output it found for its own and goes on
\* to the guarded delete when keep_originals is false
PcAfterSkip_Deletes(keep) == IF keep THEN "ret" ELSE "delete"

\* Where the pipeline goes when the output exists and is valid: return nil
PcAfterSkip(keep) == "ret"

\* The idempotency check: IsFileCorrupted on the existing output.  A valid
\* output ends the execution with skippedFiles++ and a nil error; a corrupt
\* one is removed, recoveredFiles++, and the execution goes on.
Check(w) ==
  /\ InPass
  /\ UNCHANGED << lm, call >>
  /\ wk[w].pc = "check"
  /\ LET f == wk[w].file
         p == OutPath(f)
     IN IF ~IsFileCorrupted(final[p])
        THEN /\ stats' = Bump("skipped")
             /\ wk' = [wk EXCEPT ![w].pc = PcAfterSkip(cfg.keep), ![w].ev = Log(w, "skip")]
             /\ UNCHANGED << final, hist >>
        ELSE /\ stats' = Bump("recovered")
             /\ final' = [final EXCEPT ![p] = NoFile]
             /\ wk' = [MoveFd(wk, p, "final", "gone") EXCEPT ![w].pc = PcAfterDedupe(cfg.dry)]
             /\ hist' = IF final[p].ex
                        THEN [hist EXCEPT !.act.del = @ + 1]
                        ELSE hist
  /\ UNCHANGED << cfg, enc, run, mpc, src, tmp, marker, jobs >>

\* Where the pipeline goes after CreateProcessingMarker, written or not
PcAfterClaim == "start"

\* CreateProcessingMarker: os.WriteFile of <output>.processing.  A failure
\* is logged as a warning and the execution goes on.
Claim(w) ==
  /\ InPass
  /\ UNCHANGED << lm, call >>
  /\ wk[w].pc = "claim"
  /\ LET f == wk[w].file
         p == OutPath(f)
     IN \/ /\ marker' = [marker EXCEPT ![p] = [ex |-> TRUE, pid |-> PidOf(run), by |-> f, run |-> run]]
           /\ wk' = [wk EXCEPT ![w].pc = PcAfterClaim, ![w].ev = Log(w, "claim")]
        \/ /\ marker' = marker
           /\ wk' = [wk EXCEPT ![w].pc = PcAfterClaim, ![w].ev = Log(w, "claimfail")]
  /\ UNCHANGED << cfg, enc, run, mpc, src, final, tmp, stats, jobs, hist >>

\* cmd.Run / cmd.Start: the encoder opens <output>.tmp for writing, which
\* creates it or truncates the file that is there.
Start(w) ==
  /\ InPass
  /\ UNCHANGED << lm, call >>
  /\ wk[w].pc = "start"
  /\ LET f == wk[w].file
         p == OutPath(f)
         others == { v \in W \ {w} : /\ wk[v].pc = "encoding"
                                      /\ wk[v].file # 0
                                      /\ OutPath(wk[v].file) = p
                                      /\ wk[v].fd = "tmp" }
     IN /\ tmp' = [tmp EXCEPT ![p] = [NoFile EXCEPT !.ex = TRUE, !.dirty = (others # {}), !.by = f]]
        /\ wk' = [wk EXCEPT ![w].pc = "encoding", ![w].fd = "tmp", ![w].ev = Log(w, "encstart")]
        /\ hist' = IF hist.prevFinal[p].ex
                   THEN [hist EXCEPT !.act.enc = @ + 1]
                   ELSE hist
  /\ UNCHANGED << cfg, enc, run, mpc, src, final, marker, stats, jobs >>

\* What a file holds once the encoder of w, which ends with exit code 0,
\* has written it out: the encoder's output, or, when another encoder has
\* written into the same file, possibly something the decoder rejects.
Written(cur, w, d) ==
  [cur EXCEPT !.size = EncSize(enc[wk[w].file]), !.dec = d, !.ver = FALSE,
              !.dirty = (CoWriters(w) # {})]

\* The event an encoder that does not exit with 0 leaves in the log
EncFailEvent(o) == IF o = "hang" THEN "enctimeout" ELSE "encfail"

\* The encoder of w ends: non-zero exit (error, or killed by
\* exec.CommandContext when the deadline expires), or exit 0 with its
\* output written through the file it opened.
EncEnd(w) ==
  /\ InPass
  /\ UNCHANGED << lm, call >>
  /\ wk[w].pc = "encoding"
  /\ LET f == wk[w].file
         p == OutPath(f)
         o == enc[f]
         at == wk[w].fd
         cur == IF at = "tmp" THEN tmp[p] ELSE final[p]
         mixed == cur.dirty \/ CoWriters(w) # {}
     IN IF ~EncExitOK(o)
        THEN /\ wk' = [wk EXCEPT ![w].pc = "cleanup", ![w].err = TRUE, ![w].fd = "none",
                                 ![w].ev = Log(w, EncFailEvent(o))]
             /\ UNCHANGED << tmp, final >>
        ELSE /\ wk' = [wk EXCEPT ![w].pc = "verify", ![w].fd = "none", ![w].ev = Log(w, "encok")]
             /\ \E d \in (IF mixed THEN {FALSE, EncDecodes(o)} ELSE {EncDecodes(o)}) :
                  /\ tmp' = IF at = "tmp" THEN [tmp EXCEPT ![p] = Written(cur, w, d)] ELSE tmp
                  /\ final' = IF at = "final" THEN [final EXCEPT ![p] = Written(cur, w, d)] ELSE final
  /\ UNCHANGED << cfg, enc, run, mpc, src, marker, stats, jobs, hist >>

\* VerifyOutputFile on <output>.tmp
Verify(w) ==
  /\ InPass
  /\ UNCHANGED << lm, call >>
  /\ wk[w].pc = "verify"
  /\ LET f == wk[w].file
         p == OutPath(f)
         k == Kind(f)
         ok == VerifyPasses(tmp[p], SourceTree[f].size, k, OutExt(k))
     IN /\ tmp' = [tmp EXCEPT ![p] = VerifyLeaves(tmp[p], SourceTree[f].size, k, OutExt(k))]
        /\ wk' = IF ok
                  THEN [wk EXCEPT ![w].pc = "rename", ![w].ev = Log(w, "verifyok")]
                  ELSE [MoveFd(wk, p, "tmp", "gone") EXCEPT
                          ![w].pc = "cleanup", ![w].err = TRUE, ![w].ev = Log(w, "verifyfail")]
  /\ UNCHANGED << cfg, enc, run, mpc, src, final, marker, stats, jobs, hist >>

\* The pipeline without the guarded delete
PcAfterPublish_NoDelete(keep) == "cleanup"

\* Where the pipeline goes after a successful rename
PcAfterPublish(keep) == IF keep THEN "cleanup" ELSE "delete"

\* os.Rename(tempPath, outputPath); it fails when the temp file is gone or
\* when the file system refuses the move.
Rename(w) ==
  /\ InPass
  /\ UNCHANGED << lm, call >>
  /\ wk[w].pc = "rename"
  /\ LET f == wk[w].file
         p == OutPath(f)
         done == tmp[p].ex /\ cfg.mv
     IN   IF done
          THEN /\ final' = [final EXCEPT ![p] = tmp[p]]
               /\ tmp' = [tmp EXCEPT ![p] = NoFile]
               /\ wk' = [MoveFd(MoveFd(wk, p, "final", "gone"), p, "tmp", "final") EXCEPT
                           ![w].pc = PcAfterPublish(cfg.keep), ![w].ev = Log(w, "rename")]
               /\ hist' = [hist EXCEPT !.act.pub = @ + 1]
          ELSE /\ wk' = [wk EXCEPT ![w].pc = "cleanup", ![w].err = TRUE, ![w].ev = Log(w, "renamefail")]
               /\ UNCHANGED << final, tmp, hist >>
  /\ UNCHANGED << cfg, enc, run, mpc, src, marker, stats, jobs >>

\* A pipeline that returns the error of a refused deletion
ErrAfterSafeDelete_Propagates(refused) == refused

\* Whether convertImage / convertVideo return an error after SafeDelete:
\* its error is logged as a warning and nil is returned
ErrAfterSafeDelete(refused) == FALSE

\* SafeDelete(inputPath, outputPath): re-stat of the output, then os.Remove
\* of the original.  An error only produces a warning.
Delete(w) ==
  /\ InPass
  /\ UNCHANGED << lm, call >>
  /\ wk[w].pc = "delete"
  /\ LET f == wk[w].file
         p == OutPath(f)
     IN IF SafeDeleteAllows(final[p])
        THEN /\ src' = [src EXCEPT ![f] = FALSE]
             /\ hist' = [hist EXCEPT !.unl = @ \cup
                           {[src |-> f, ex |-> final[p].ex, size |-> final[p].size,
                             ev |-> wk[w].ev, outby |-> final[p].by]}]
             /\ wk' = [wk EXCEPT ![w].pc = "cleanup", ![w].ev = Log(w, "delete")]
        ELSE /\ wk' = [wk EXCEPT ![w].pc = "cleanup", ![w].err = ErrAfterSafeDelete(TRUE),
                                 ![w].ev = Log(w, "nodelete")]
             /\ UNCHANGED << src, hist >>
  /\ UNCHANGED << cfg, enc, run, mpc, final, tmp, marker, stats, jobs >>

\* The deferred function with only the marker removal
CleanupLeaves_KeepsTmp(t) == t

\* What the deferred function leaves of <output>.tmp
CleanupLeaves(t) == NoFile

\* The deferred function: RemoveProcessingMarker, then os.Stat(tempPath)
\* and os.Remove(tempPath)
Cleanup(w) ==
  /\ InPass
  /\ UNCHANGED << lm, call >>
  /\ wk[w].pc = "cleanup"
  /\ LET p == OutPath(wk[w].file)
     IN /\ marker' = [marker EXCEPT ![p] = NoMarker]
        /\ tmp' = [tmp EXCEPT ![p] = CleanupLeaves(tmp[p])]
        /\ wk' = [MoveFd(wk, p, "tmp", "gone") EXCEPT ![w].pc = "ret", ![w].ev = Log(w, "release")]
  /\ UNCHANGED << cfg, enc, run, mpc, src, final, stats, jobs, hist >>

\* A worker that counts every returned conversion as processed
CounterFor_AlwaysProcessed(err) == "processed"

\* The counter the worker bumps when convertFile has returned
CounterFor(err) == IF err THEN "failed" ELSE "processed"

\* worker: convertFile has returned
Ret(w) ==
  /\ InPass
  /\ UNCHANGED << lm, call >>
  /\ wk[w].pc = "ret"
  /\ stats' = Bump(CounterFor(wk[w].err))
  /\ wk' = [wk EXCEPT ![w] = IdleWorker]
  /\ UNCHANGED << cfg, enc, run, mpc, src, final, tmp, marker, jobs, hist >>

\* convertFiles returning without waiting for its workers
AllReturned_NoWait(wks) == TRUE

\* wg.Wait(): every worker has left its loop; a worker leaves it when the
\* closed channel is drained and its conversion has returned
AllReturned(wks) == \A w \in W : wks[w].pc = "idle"

\* convertFiles returns: close(jobs), wg.Wait()
PassDone ==
  /\ InPass
  /\ UNCHANGED << lm, call >>
  /\ jobs[mpc] = << >>
  /\ AllReturned(wk)
  /\ mpc' = IF mpc = "photo" THEN "video" ELSE "report"
  /\ UNCHANGED << cfg, enc, run, src, final, tmp, marker, stats, jobs, wk, hist >>

\* showFinalReport, and Convert returns nil
Report ==
  /\ mpc = "report"
  /\ UNCHANGED << lm, call >>
  /\ mpc' = "done"
  /\ UNCHANGED << cfg, enc, run, src, final, tmp, marker, stats, jobs, wk, hist >>

\* ------------------------------------------------------------------- runs
Ended == mpc \in {"done", "aborted", "killed"}

\* Where an execution stands when the process is killed: after the marker
\* claim, during the encode, after the encode, after the verification
\* (before the rename), after the rename.
KillPoints == {"start", "encoding", "verify", "rename", "delete", "cleanup"}

\* The process is killed: its goroutines and its encoders are gone, the
\* files stay as they are.
Kill ==
  /\ InPass
  /\ UNCHANGED << lm, call >>
  /\ \E w \in W : wk[w].pc \in KillPoints
  /\ run < MaxRuns
  /\ mpc' = "killed"
  /\ wk' = [w \in W |-> IdleWorker]
  /\ jobs' = [photo |-> << >>, video |-> << >>]
  /\ UNCHANGED << cfg, enc, run, src, final, tmp, marker, stats, hist >>

\* The tool is started again on the same directories: NewConverter
StartRun ==
  /\ Ended
  /\ UNCHANGED << lm, call >>
  /\ run < MaxRuns
  /\ run' = run + 1
  /\ mpc' = "recovery"
  /\ stats' = ZeroStats
  /\ jobs' = [photo |-> << >>, video |-> << >>]
  /\ hist' = [hist EXCEPT !.prevEnd = mpc,
                          !.prevStats = IF mpc = "done" THEN stats ELSE ZeroStats,
                          !.prevFinal = IF mpc = "done" THEN final ELSE Everywhere(NoFile),
                          !.prevStartSrc = IF mpc = "done" THEN hist.startSrc ELSE src,
                          !.startSrc = src,
                          !.act = ZeroAct, !.unl = {}, !.checked = {},
                          !.rec = NoRec]
  /\ UNCHANGED << cfg, enc, src, final, tmp, marker, wk >>

Next ==
  \/ Recovery
  \/ DiskCheck
  \/ SafetyTest
  \/ Discover
  \/ \E w \in W : TakeJob(w)
  \/ \E w \in W : Plan(w)
  \/ \E w \in W : Check(w)
  \/ \E w \in W : Claim(w)
  \/ \E w \in W : Start(w)
  \/ \E w \in W : EncEnd(w)
  \/ \E w \in W : Verify(w)
  \/ \E w \in W : Rename(w)
  \/ \E w \in W : Delete(w)
  \/ \E w \in W : Cleanup(w)
  \/ \E w \in W : Ret(w)
  \/ PassDone
  \/ Report
  \/ Kill
  \/ StartRun

Spec == Init /\ [][Next]_vars

\* The runs in which the video encoder never ends by itself.  The deadline
\* of the encoder's context fires, and the Go scheduler runs the deferred
\* cleanup and the worker's bookkeeping: these steps are taken when they
\* stay possible.
DeadlineInit == Init /\ enc[3] = "hang"

DeadlineSpec ==
  /\ DeadlineInit
  /\ [][Next]_vars
  /\ \A w \in W : WF_vars(EncEnd(w)) /\ WF_vars(Cleanup(w)) /\ WF_vars(Ret(w))

\* ====================================================== I/O errors
\* performRecovery returns an error: filepath.Walk reports an I/O error to
\* the callback of CleanupAbandonedFiles ("cleanup": nothing is removed),
\* of FindAbandonedMarkers ("markers": the cleanup is done) or of
\* verifyExistingFiles ("verify": cleanup and markers are done, no output
\* is checked).  Convert logs "Recovery issues detected" and goes on.
RecoveryFails ==
  /\ mpc = "recovery"
  /\ UNCHANGED << lm, call >>
  /\ \E stage \in {"cleanup", "markers", "verify"} :
        LET t1 == IF stage = "cleanup" THEN tmp ELSE CleanupTmp(tmp)
            m1 == IF stage = "cleanup" THEN marker ELSE CleanupMarkers(marker, run)
        IN /\ tmp' = t1
           /\ marker' = m1
           /\ hist' = [hist EXCEPT !.rec = [tmps |-> Cardinality({p \in Paths : tmp[p].ex}),
                                            markers |-> Cardinality({p \in Paths : marker[p].ex /\ ~m1[p].ex}),
                                            corrupt |-> 0,
                                            err |-> TRUE]]
  /\ mpc' = "diskcheck"
  /\ UNCHANGED << cfg, enc, run, src, final, stats, jobs, wk >>

\* The runs in which the walks of the destination can fail, started on a
\* destination that holds an orphan temp file and markers
IoInit ==
  /\ Init
  /\ ~cfg.under
  /\ cfg.mv
  /\ enc[1] \in {"ok", "fail"}
  /\ enc[2] = "ok"
  /\ tmp[P1].ex

IoNext ==
  \/ Next
  \/ RecoveryFails

IoSpec == IoInit /\ [][IoNext]_vars

\* ================================================= functions on their own
\* The functions of the security and utils packages called with arguments
\* of any kind, as their unit tests would call them.
OutputFiles ==
  { NoFile } \cup
  { [NoFile EXCEPT !.ex = TRUE, !.size = sz, !.dec = d] :
      sz \in {0, 200, 500, 2500}, d \in BOOLEAN }

InputStats == { [ex |-> FALSE, size |-> 0] } \cup { Stat(sz) : sz \in {300000, 2000000} }

\* was: the file at outputPath at the call; out: the file there now
VerifyCalls ==
  { [fn |-> "VerifyOutputFile", was |-> f, out |-> f, inp |-> i,
     kind |-> k, format |-> fmt, done |-> FALSE, err |-> "nil"] :
      f \in OutputFiles, i \in InputStats,
      k \in {"photo", "video", "audio"}, fmt \in {"avif", "webp", "mp4"} }

\* ------------------------------------------------------ utils.GetFileDate
\* Dates are years.  time.Now() at the call, the floor of isValidDate, and
\* the year of the zero time.Time that goes with every error.
Now == 2026
MinDate == 1990
ZeroTime == 1

\* What a source hands back: the command failed ("fail"), printed nothing
\* or "(null)" ("empty"), printed text no layout parses ("bad"), or printed
\* a date of the year `at` ("date").
Reading(st, at) == [st |-> st, at |-> at]
NoDate(st) == Reading(st, ZeroTime)

\* A date and an error, as the Go functions return them
Got(d) == [err |-> FALSE, date |-> d]
NotGot == [err |-> TRUE, date |-> ZeroTime]

\* isValidDate without the 1990 floor
isValidDate_NoFloor(d) == ~(d > Now)

\* isValidDate: not after now, not before 1990-01-01
isValidDate(d) == ~(d > Now) /\ ~(d < MinDate)

\* parseDateTime and the layouts of getMacOSMetadataDate
parseDateTime(r) == IF r.st = "date" THEN Got(r.at) ELSE NotGot

ImageExtensions == {"jpg", "png"}
VideoExtensions == {"mp4", "mov"}

\* getMacOSMetadataDate: mdls, on darwin only
getMacOSMetadataDate(c) ==
  IF c.goos # "darwin" THEN NotGot
  ELSE IF c.mdls.st \in {"fail", "empty"} THEN NotGot
  ELSE parseDateTime(c.mdls)

\* The loop of getImageMetadataDate from field i on: the first field whose
\* text parses is returned, whatever its date
RECURSIVE FirstParsed(_, _)
FirstParsed(fields, i) ==
  IF i > Len(fields) THEN NotGot
  ELSE IF fields[i].st \in {"fail", "empty"} THEN FirstParsed(fields, i + 1)
  ELSE IF ~parseDateTime(fields[i]).err THEN parseDateTime(fields[i])
  ELSE FirstParsed(fields, i + 1)

\* getImageMetadataDate: EXIF:DateTimeOriginal, EXIF:DateTime, date:create,
\* date:modify of an image file
getImageMetadataDate(c) ==
  IF c.ext \notin ImageExtensions THEN NotGot
  ELSE FirstParsed(c.exif, 1)

\* getVideoMetadataDate: the creation_time tag of a video file
getVideoMetadataDate(c) ==
  IF c.ext \notin VideoExtensions THEN NotGot
  ELSE IF c.ffprobe.st \in {"fail", "empty"} THEN NotGot
  ELSE parseDateTime(c.ffprobe)

\* GetFileDate: the date and the error it returns
FileDate(c) ==
  LET m == getMacOSMetadataDate(c)
      i == getImageMetadataDate(c)
      v == getVideoMetadataDate(c)
  IN IF ~m.err /\ isValidDate(m.date) THEN [err |-> "nil", date |-> m.date]
     ELSE IF ~i.err /\ isValidDate(i.date) THEN [err |-> "nil", date |-> i.date]
     ELSE IF ~v.err /\ isValidDate(v.date) THEN [err |-> "nil", date |-> v.date]
     ELSE IF c.stat.st = "fail" THEN [err |-> "stat", date |-> ZeroTime]
     ELSE IF isValidDate(c.stat.at) THEN [err |-> "nil", date |-> c.stat.at]
     ELSE [err |-> "no valid date found", date |-> ZeroTime]

\* convertImage / convertVideo after GetFileDate: an error is returned as
\* "unable to determine file date", and the worker counts what is returned
AfterFileDate(err) ==
  IF err # "nil" THEN [ret |-> "unable to determine file date", counter |-> CounterFor(TRUE)]
  ELSE [ret |-> "goes on", counter |-> "none yet"]

MdlsReadings == { NoDate("fail"), NoDate("empty"), Reading("date", 1989), Reading("date", 2010) }
ExifReadings == { NoDate("empty"), NoDate("bad"), Reading("date", 1985), Reading("date", 2015) }
ProbeReadings == { NoDate("fail"), Reading("date", MinDate), Reading("date", Now + 1) }
StatReadings ==
  { NoDate("fail") } \cup { Reading("date", y) : y \in {MinDate - 1, MinDate, Now, Now + 1} }

\* exif: the four fields in the order they are asked for; date:create and
\* date:modify are read from the same file and fail or succeed together
DateCalls ==
  { [fn |-> "GetFileDate", goos |-> os, ext |-> x, mdls |-> m,
     exif |-> << e1, e2, e3, e3 >>, ffprobe |-> v, stat |-> st,
     done |-> FALSE, err |-> "nil", date |-> ZeroTime,
     ret |-> "goes on", counter |-> "none yet"] :
      os \in {"darwin", "linux"}, x \in {"jpg", "mp4", "wav"},
      m \in MdlsReadings, e1 \in ExifReadings, e2 \in ExifReadings,
      e3 \in { NoDate("empty"), Reading("date", 2016) },
      v \in ProbeReadings, st \in StatReadings }

\* ------------------------------------------- the date in the planned path
\* A time.Time with its zone: the day (counted from 1990-01-01, which is
\* day 0) and the hour its clock shows, and the zone's offset from UTC in
\* hours.
Time(day, hour, off) == [day |-> day, hour |-> hour, off |-> off]

\* The instant of a time.Time, in hours since 1990-01-01T00:00Z: what
\* Time.After and Time.Before compare
Instant(t) == (t.day * 24 + t.hour) - t.off

\* time.Date(1990, 1, 1, 0, 0, 0, 0, time.UTC)
MinTime == Time(0, 0, 0)

\* The day on which the tool runs, and the hour of time.Now() in UTC
Today == 10
NowHourUTC == 12

\* time.Now() on a machine whose zone is `loc` hours from UTC
NowIn(loc) ==
  LET h == Today * 24 + NowHourUTC + loc
  IN Time(h \div 24, h % 24, loc)

\* isValidDate on times with a zone: not after now, not before 1990-01-01 UTC
isValidDateAt(t, now) ==
  ~(Instant(t) > Instant(now)) /\ ~(Instant(t) < Instant(MinTime))

\* Time.Format("2006-01-02"): the day the time's own clock shows
FormatDay(t) == t.day

\* CreateDestinationPath with organizeByDate: the day directory
CreateDestinationPath(t) == FormatDay(t)

\* The date CleanFilename writes in front of the name
CleanFilenameDate(t) == FormatDay(t)

\* Offsets as metadata carries them and as machines are set
Offsets == {-12, -5, 0, 9, 14}

\* convertImage / convertVideo planning the destination of a file whose
\* first date source gives the time t, on a machine in zone loc
PlanCalls ==
  { [fn |-> "PlanDestination", t |-> Time(d, h, o), loc |-> l,
     done |-> FALSE, err |-> "nil", dirDay |-> 0, nameDay |-> 0] :
      d \in {-1, 0, 5, Today - 1, Today, Today + 1}, h \in {0, 6, 20, 23},
      o \in Offsets, l \in {-5, 0, 9} }

\* ------------------------------------------------------ utils.CleanFilename
\* Strings are sequences of characters.
MaxNameLen == 3

Digits == {"0", "1", "2", "3", "4", "5", "6", "7", "8", "9"}
LowerLetters == {"a", "b", "e", "f", "i", "m", "p", "v", "w"}
UpperLetters == {"Z"}

\* The class [a-zA-Z0-9._-] of CleanFilename's first regexp
KeptChars == LowerLetters \cup UpperLetters \cup Digits \cup {".", "_", "-"}

\* The characters of the source names: letters, a digit, the three signs
\* of the class, and "#" for every character outside it
NameChars == {"a", "Z", "7", ".", "-", "_", "#"}

\* The names of discovered files without their extension: not empty and
\* not starting with a dot, which discovery may take for a sidecar entry
Names ==
  { n \in UNION { [1..k -> NameChars] : k \in 1..MaxNameLen } : n[1] # "." }

\* The digit d as a character
Dig(d) == << "0", "1", "2", "3", "4", "5", "6", "7", "8", "9" >>[d + 1]

\* The decimal digits of n, most significant first
RECURSIVE Decimal(_)
Decimal(n) == IF n < 10 THEN << Dig(n) >> ELSE Decimal(n \div 10) \o << Dig(n % 10) >>

\* %0wd and the zero-padded fields of Time.Format: left-fill to width w
ZeroFill(n, w) ==
  [i \in 1..(w - Len(Decimal(n))) |-> "0"] \o Decimal(n)

\* date.Format("2006-01-02") of a calendar date
FormatDate(d) ==
  ZeroFill(d.y, 4) \o << "-" >> \o ZeroFill(d.m, 2) \o << "-" >> \o ZeroFill(d.d, 2)

\* reg.ReplaceAllString(filename, "_") with [^a-zA-Z0-9._-]
ReplaceSpecial(name) ==
  [i \in 1..Len(name) |-> IF name[i] \in KeptChars THEN name[i] ELSE "_"]

\* reg.ReplaceAllString(cleanName, "_") with _+
RECURSIVE CollapseUnderscores(_)
CollapseUnderscores(name) ==
  IF Len(name) <= 1 THEN name
  ELSE IF name[1] = "_" /\ name[2] = "_" THEN CollapseUnderscores(Tail(name))
  ELSE << name[1] >> \o CollapseUnderscores(Tail(name))

\* strings.Trim(cleanName, "_")
RECURSIVE TrimUnderscores(_)
TrimUnderscores(name) ==
  IF name = << >> THEN name
  ELSE IF name[1] = "_" THEN TrimUnderscores(Tail(name))
  ELSE IF name[Len(name)] = "_" THEN TrimUnderscores(SubSeq(name, 1, Len(name) - 1))
  ELSE name

\* CleanFilename: "%s_%s_%03d.%s" of the date, the cleaned name, the
\* counter and the extension
CleanFilename(filename, extension, date, counter) ==
  FormatDate(date) \o << "_" >>
    \o TrimUnderscores(CollapseUnderscores(ReplaceSpecial(filename)))
    \o << "_" >> \o (IF counter < 1000 THEN ZeroFill(counter, 3) ELSE Decimal(counter))
    \o << "." >> \o extension

\* The output extensions: PhotoFormat avif or webp, and "mp4" for videos
OutExtensions == { << "a", "v", "i", "f" >>, << "w", "e", "b", "p" >>, << "m", "p", "4" >> }

\* Dates that isValidDate accepts
FileDates == { [y |-> 1990, m |-> 1, d |-> 1], [y |-> 2024, m |-> 3, d |-> 15] }

\* convertImage / convertVideo call CleanFilename with the name of the
\* source without its extension, the output extension and the counter 1
NameCalls ==
  { [fn |-> "CleanFilename", name |-> n, ext |-> x, date |-> d, counter |-> 1,
     done |-> FALSE, out |-> << >>] :
      n \in Names, x \in OutExtensions, d \in FileDates }

FnInit ==
  /\ cfg = [keep |-> TRUE, dry |-> FALSE, under |-> FALSE, mv |-> TRUE]
  /\ enc = [s \in Src |-> "ok"]
  /\ run = 1
  /\ mpc = "done"
  /\ src = [s \in Src |-> TRUE]
  /\ final = Everywhere(NoFile)
  /\ tmp = Everywhere(NoFile)
  /\ marker = Everywhere(NoMarker)
  /\ stats = ZeroStats
  /\ jobs = [photo |-> << >>, video |-> << >>]
  /\ wk = [w \in W |-> IdleWorker]
  /\ hist = ZeroHist
  /\ lm = NoLimiter
  /\ call \in VerifyCalls \cup DateCalls \cup PlanCalls \cup NameCalls

\* SecurityChecker.VerifyOutputFile, from the call to the return
VerifyOutputFile ==
  /\ call.fn = "VerifyOutputFile"
  /\ ~call.done
  /\ call' = [call EXCEPT
                !.done = TRUE,
                !.err = VerifyError(call.out, call.inp, call.kind, call.format),
                !.out = VerifyAfter(call.out, call.inp, call.kind, call.format)]
  /\ UNCHANGED << pvars, lm >>

\* utils.GetFileDate as convertImage and convertVideo call it, from the call
\* to the check of its error
GetFileDate ==
  /\ call.fn = "GetFileDate"
  /\ ~call.done
  /\ LET r == FileDate(call)
     IN call' = [call EXCEPT
                   !.done = TRUE,
                   !.err = r.err,
                   !.date = r.date,
                   !.ret = AfterFileDate(r.err).ret,
                   !.counter = AfterFileDate(r.err).counter]
  /\ UNCHANGED << pvars, lm >>

\* convertImage / convertVideo from GetFileDate to the planned path: the
\* date is accepted by isValidDate or the execution ends with an error;
\* CreateDestinationPath and CleanFilename format the accepted date.
PlanDestination ==
  /\ call.fn = "PlanDestination"
  /\ ~call.done
  /\ call' = IF isValidDateAt(call.t, NowIn(call.loc))
             THEN [call EXCEPT !.done = TRUE,
                               !.dirDay = CreateDestinationPath(call.t),
                               !.nameDay = CleanFilenameDate(call.t)]
             ELSE [call EXCEPT !.done = TRUE,
                               !.err = "unable to determine file date"]
  /\ UNCHANGED << pvars, lm >>

\* utils.CleanFilename as the pipeline calls it
CleanFilenameCall ==
  /\ call.fn = "CleanFilename"
  /\ ~call.done
  /\ call' = [call EXCEPT
                !.done = TRUE,
                !.out = CleanFilename(call.name, call.ext, call.date, call.counter)]
  /\ UNCHANGED << pvars, lm >>

FnNext ==
  \/ VerifyOutputFile
  \/ GetFileDate
  \/ PlanDestination
  \/ CleanFilenameCall

FnSpec == FnInit /\ [][FnNext]_vars

TypeOK ==
  /\ run \in 1..MaxRuns
  /\ \A p \in Paths : final[p].ex \in BOOLEAN /\ tmp[p].ex \in BOOLEAN

\* ========================================================== the limiter
\* The adaptive video pass: convertFiles creates an AdaptiveLimiter, its
\* worker goroutines bracket every conversion with Acquire / Release, and
\* runAdaptiveController moves the limit on every ResourceSnapshot.  The
\* limiter is also exercised through its methods alone (mode "api"), where
\* SetLimit is called with any argument.
MaxLimit == 3
NG == 3
MaxStreak == 2

CPUHigh == 80
CPULow == 50
MemLowPercent == 20
ComfortMargin == 5

G == 1..NG

\* ResourceSnapshot: what was measured, and the readings
Snapshots == [cpuM : BOOLEAN, cpu : {20, 60, 90}, memM : BOOLEAN, mem : {10, 22, 50}]

\* runAdaptiveController: busy
IsBusy(s) == (s.cpuM /\ s.cpu >= CPUHigh) \/ (s.memM /\ s.mem <= MemLowPercent)

\* comfortMemThreshold := math.Min(100, cfg.MemLowPercent+5)
ComfortMemThreshold == Min({100, MemLowPercent + ComfortMargin})

\* A controller that takes a reading that is missing for a bad one
IsComfortable_NeedsReadings(s) ==
  /\ s.cpuM /\ ~(s.cpu > CPULow)
  /\ s.memM /\ ~(s.mem < ComfortMemThreshold)

\* runAdaptiveController: comfortable (looked at only when not busy)
IsComfortable(s) ==
  /\ ~(s.cpuM /\ s.cpu > CPULow)
  /\ ~(s.memM /\ s.mem < ComfortMemThreshold)

\* NewAdaptiveLimiter and SetLimit: if limit < 1 { limit = 1 }
ClampLimit(n) == IF n < 1 THEN 1 ELSE n

\* NewConfig: the sanitised adaptive_workers.min / max under the job ceiling
Sanitize(min, max, maxJobs) ==
  LET min1 == IF min < 1 THEN 1 ELSE min
      max1 == IF max < min1 THEN min1 ELSE max
      max2 == IF max1 > maxJobs THEN maxJobs ELSE max1
      min2 == IF min1 > max2 THEN max2 ELSE min1
  IN [min |-> min2, max |-> max2]

\* The configurations NewConfig can hand to a run (MaxJobs is at least 1)
AdaptiveConfigs ==
  { Sanitize(a, b, j) : a \in 0..MaxLimit, b \in 0..MaxLimit, j \in 1..MaxLimit }

\* convertFiles: maxJobs of an adaptive video pass
PassMaxJobs(c) ==
  LET m1 == IF c.max < c.min THEN c.min ELSE c.max
  IN IF m1 < 1 THEN 1 ELSE m1

\* A pass that starts with every worker admitted
InitialLimit_Max(c) == PassMaxJobs(c)

\* convertFiles: initialLimit
InitialLimit(c) ==
  LET i1 == IF c.min < 1 THEN 1 ELSE c.min
  IN IF i1 > PassMaxJobs(c) THEN PassMaxJobs(c) ELSE i1

\* History of the limiter: the last operation (op, the limit before it, the
\* class of the snapshot), the state SetLimit found (k the limit it set, n
\* the goroutines blocked in Acquire, h the holders, gen alternating from
\* one call to the next) as long as no Release and no new Acquire has
\* followed, the number of comfortable snapshots
\* in a row modulo 4, and whether two comfortable snapshots in a row have
\* been received so far (two).
NoLast == [op |-> "none", from |-> 0, busy |-> FALSE, comf |-> FALSE]
NoSet == [ok |-> FALSE, k |-> 0, n |-> 0, h |-> 0, gen |-> 0]

\* A limiter with its goroutines: per goroutine "out" (not in the limiter),
\* "wait" (parked in cond.Wait), "woken" (signalled, about to re-test the
\* loop condition) or "in" (holds a slot); blk: it was parked during its
\* current Acquire.
NewAdaptiveLimiter(mode, c, workers, limit) ==
  [mode |-> mode, min |-> c.min, max |-> c.max, workers |-> workers,
   limit |-> ClampLimit(limit), active |-> 0,
   g |-> [x \in G |-> "out"], blk |-> [x \in G |-> FALSE],
   high |-> 0, low |-> 0, hcomf |-> 0, two |-> FALSE, last |-> NoLast, sl |-> NoSet]

Limiters ==
  { NewAdaptiveLimiter("api", [min |-> 1, max |-> MaxLimit], NG, n) : n \in 0..MaxLimit }
  \cup
  { NewAdaptiveLimiter("pass", c, PassMaxJobs(c), InitialLimit(c)) : c \in AdaptiveConfigs }

LimInit ==
  /\ cfg = [keep |-> TRUE, dry |-> FALSE, under |-> FALSE, mv |-> TRUE]
  /\ enc = [s \in Src |-> "ok"]
  /\ run = 1
  /\ mpc = "video"
  /\ src = [s \in Src |-> TRUE]
  /\ final = Everywhere(NoFile)
  /\ tmp = Everywhere(NoFile)
  /\ marker = Everywhere(NoMarker)
  /\ stats = ZeroStats
  /\ jobs = [photo |-> << >>, video |-> << >>]
  /\ wk = [w \in W |-> IdleWorker]
  /\ hist = ZeroHist
  /\ lm \in Limiters
  /\ call = NoCall

Blocked(l) == { x \in G : l.g[x] \in {"wait", "woken"} }
Waiting(l) == { x \in G : l.g[x] = "wait" }
Woken(l) == { x \in G : l.g[x] = "woken" }
Holders(l) == { x \in G : l.g[x] = "in" }

\* Release and SetLimit without the call of cond.Signal
SignalOne_Nobody(gs) == {gs}

\* cond.Signal: wakes one goroutine parked on the condition, if there is any
SignalOne(gs) ==
  IF \A x \in G : gs[x] # "wait"
  THEN {gs}
  ELSE { [gs EXCEPT ![x] = "woken"] : x \in { y \in G : gs[y] = "wait" } }

\* SetLimit with cond.Signal in the place of cond.Broadcast
Broadcast_One(gs) ==
  IF \A x \in G : gs[x] # "wait"
  THEN gs
  ELSE [gs EXCEPT ![Min({ y \in G : gs[y] = "wait" })] = "woken"]

\* cond.Broadcast: wakes every goroutine parked on the condition
Broadcast(gs) == [x \in G |-> IF gs[x] = "wait" THEN "woken" ELSE gs[x]]

\* The loop of Acquire with the test off by one
HasSlot_UpToLimit(l) == l.active <= l.limit

\* for l.active >= l.limit { l.cond.Wait() }
HasSlot(l) == l.active < l.limit

\* The loop of Acquire, entered at the call and again after every wake-up:
\* take a slot (l.active++) or park in cond.Wait
TryEnter(l, x) ==
  IF HasSlot(l)
  THEN [l EXCEPT !.active = @ + 1, !.g[x] = "in"]
  ELSE [l EXCEPT !.g[x] = "wait", !.blk[x] = TRUE]

\* AdaptiveLimiter.Acquire, from the call to the first test of the loop
Acquire(x) ==
  /\ lm.mode # "off"
  /\ x <= lm.workers
  /\ lm.g[x] = "out"
  /\ lm' = [TryEnter([lm EXCEPT !.blk[x] = FALSE], x) EXCEPT
              !.last = [NoLast EXCEPT !.op = "acquire", !.from = lm.limit],
              !.sl.ok = FALSE]
  /\ UNCHANGED << pvars, call >>

\* AdaptiveLimiter.Acquire, a woken goroutine re-tests the loop condition
Recheck(x) ==
  /\ lm.mode # "off"
  /\ lm.g[x] = "woken"
  /\ lm' = [TryEnter(lm, x) EXCEPT
              !.last = [NoLast EXCEPT !.op = IF HasSlot(lm) THEN "admit" ELSE "repark",
                                      !.from = lm.limit]]
  /\ UNCHANGED << pvars, call >>

\* AdaptiveLimiter.Release
Release(x) ==
  /\ lm.mode # "off"
  /\ lm.g[x] = "in"
  /\ \E gs \in SignalOne([lm.g EXCEPT ![x] = "out"]) :
        lm' = [lm EXCEPT !.active = IF @ > 0 THEN @ - 1 ELSE @,
                         !.g = gs,
                         !.blk[x] = FALSE,
                         !.last = [NoLast EXCEPT !.op = "release", !.from = lm.limit],
                         !.sl.ok = FALSE]
  /\ UNCHANGED << pvars, call >>

\* SetLimit that also cuts active down to the new limit
AfterSetLimit_CutsActive(l, n) ==
  { [l EXCEPT !.limit = ClampLimit(n),
              !.active = IF @ > ClampLimit(n) THEN ClampLimit(n) ELSE @,
              !.g = gs] :
      gs \in (IF ClampLimit(n) > l.limit THEN {Broadcast(l.g)} ELSE SignalOne(l.g)) }

\* AdaptiveLimiter.SetLimit on the limiter l: the limiters it can leave
AfterSetLimit(l, n) ==
  { [l EXCEPT !.limit = ClampLimit(n), !.g = gs] :
      gs \in (IF ClampLimit(n) > l.limit THEN {Broadcast(l.g)} ELSE SignalOne(l.g)) }

\* AdaptiveLimiter.SetLimit called with any argument
SetLimit(n) ==
  /\ lm.mode = "api"
  /\ \E l2 \in AfterSetLimit(lm, n) :
        lm' = [l2 EXCEPT !.last = [NoLast EXCEPT !.op = "setlimit", !.from = lm.limit],
                         !.sl = [ok |-> TRUE, k |-> l2.limit,
                                 n |-> Cardinality(Blocked(lm)), h |-> lm.active,
                                 gen |-> 1 - lm.sl.gen]]
  /\ UNCHANGED << pvars, call >>

\* highStreak++ / lowStreak++; the counters are only compared with 1 and 2
\* and are kept from growing beyond MaxStreak
Streak(n) == IF n > MaxStreak THEN MaxStreak ELSE n

\* The busy branch without the test against cfg.MinWorkers
BusyLowers_NoFloor(high, limit, min) == high >= 1

\* The busy branch waiting for two busy samples in a row
BusyLowers_SecondSample(high, limit, min) == high >= 2 /\ limit > min

\* if highStreak >= 1 && limit > cfg.MinWorkers
BusyLowers(high, limit, min) == high >= 1 /\ limit > min

\* The comfortable branch raising on the first sample
ComfortStreakDone_FirstSample(low) == ~(low < 1)

\* if lowStreak < 2 { continue }
ComfortStreakDone(low) == ~(low < 2)

\* if limit < cfg.MaxWorkers
RaiseAllowed(limit, max) == limit < max

\* runAdaptiveController: one snapshot received from the monitor
Snapshot(s) ==
  /\ lm.mode = "pass"
  /\ LET l0 == [lm EXCEPT !.last = [op |-> "snap", from |-> lm.limit,
                                     busy |-> IsBusy(s),
                                     comf |-> ~IsBusy(s) /\ IsComfortable(s)],
                          !.hcomf = IF ~IsBusy(s) /\ IsComfortable(s)
                                    THEN (@ + 1) % 4 ELSE 0,
                          !.two = @ \/ (~IsBusy(s) /\ IsComfortable(s) /\ lm.hcomf >= 1)]
     IN IF IsBusy(s)
        THEN LET l1 == [l0 EXCEPT !.high = Streak(@ + 1), !.low = 0]
             IN IF BusyLowers(l1.high, l1.limit, l1.min)
                THEN lm' \in AfterSetLimit(l1, l1.limit - 1)
                ELSE lm' = l1
        ELSE IF ~IsComfortable(s)
        THEN lm' = [l0 EXCEPT !.high = 0, !.low = 0]
        ELSE IF ~ComfortStreakDone(lm.low + 1)
        THEN lm' = [l0 EXCEPT !.low = Streak(@ + 1)]
        ELSE LET l1 == [l0 EXCEPT !.high = 0, !.low = 0]
             IN IF RaiseAllowed(l1.limit, l1.max)
                THEN lm' \in AfterSetLimit(l1, l1.limit + 1)
                ELSE lm' = l1
  /\ UNCHANGED << pvars, call >>

LimNext ==
  \/ \E x \in G : Acquire(x)
  \/ \E x \in G : Recheck(x)
  \/ \E x \in G : Release(x)
  \/ \E n \in 0..MaxLimit : SetLimit(n)
  \/ \E s \in Snapshots : Snapshot(s)

LimSpec == LimInit /\ [][LimNext]_vars

\* The Go scheduler runs every runnable goroutine: a woken goroutine gets
\* to re-test the loop condition.
LimFair == LimSpec /\ \A x \in G : WF_vars(Recheck(x))

\* The adaptive video pass on a platform without metric sources:
\* cpuUsagePercent and memoryAvailablePercent return an error, the monitor
\* leaves CPUMeasured and MemMeasured false in every snapshot.
Unmeasured == { s \in Snapshots : ~s.cpuM /\ ~s.memM }

BlindInit == LimInit /\ lm.mode = "pass"

BlindNext ==
  \/ \E x \in G : Acquire(x)
  \/ \E x \in G : Recheck(x)
  \/ \E x \in G : Release(x)
  \/ \E s \in Unmeasured : Snapshot(s)

BlindSpec == BlindInit /\ [][BlindNext]_vars

\* The monitor ticks as long as the pass runs, and the controller receives
\* what it publishes.
BlindFair == BlindSpec /\ WF_vars(\E s \in Unmeasured : Snapshot(s))

LimTypeOK ==
  /\ lm.limit \in 1..MaxLimit
  /\ lm.active \in 0..NG
  /\ lm.active = Cardinality(Holders(lm))
  /\ lm.high \in 0..MaxStreak
  /\ lm.low \in 0..1

\* ============================================ convertFiles on its own
\* convertFiles(files, fileType) with any number of files and any
\* configuration NewConfig can produce.  MaxCores bounds max_jobs,
\* MaxFiles the number of files of the pass.
MaxCores == 3
MaxFiles == 3

PW == 1..MaxCores

\* convertFiles without the ceiling of two video jobs
PoolWorkers_NoVideoCap(kind, maxJobs, adaptive, c) ==
  IF kind = "video" /\ adaptive THEN PassMaxJobs(c)
  ELSE IF maxJobs < 1 THEN 1 ELSE maxJobs

\* convertFiles: the number of workers it starts (its local maxJobs)
PoolWorkers(kind, maxJobs, adaptive, c) ==
  LET m0 == IF maxJobs < 1 THEN 1 ELSE maxJobs
  IN IF kind = "video"
     THEN IF adaptive THEN PassMaxJobs(c)
          ELSE IF m0 > VideoJobCap THEN VideoJobCap ELSE m0
     ELSE m0

\* limiter != nil
HasLimiter(c) == c.kind = "video" /\ c.adaptive

\* A call of convertFiles: its configuration (maxJobs, adaptive, aw the
\* sanitised adaptive_workers), the workers it has started, the files of
\* the pass (total) and those not yet sent over the channel (files), the
\* channel ("open" or "closed"), per worker "recv" (at the channel), "acq"
\* (calls limiter.Acquire), "wait" (parked in cond.Wait), "woken"
\* (signalled, about to re-test the loop), "run" (in convertFile) or "exit",
\* the limit and the active count of the limiter (0 when there is none),
\* the calls of Acquire that have returned and the calls of Release (acq,
\* rel), the two counters of the workers, and whether convertFiles has
\* returned.
PoolCalls ==
  { [fn |-> "convertFiles", kind |-> k, maxJobs |-> j, adaptive |-> ad,
     aw |-> Sanitize(a, b, j),
     workers |-> PoolWorkers(k, j, ad, Sanitize(a, b, j)),
     total |-> n, files |-> n, jobs |-> "open",
     st |-> [x \in PW |-> "recv"],
     limit |-> IF k = "video" /\ ad THEN InitialLimit(Sanitize(a, b, j)) ELSE 0,
     active |-> 0, acq |-> 0, rel |-> 0,
     processed |-> 0, failed |-> 0, returned |-> FALSE] :
      k \in {"photo", "video"}, j \in PW, ad \in BOOLEAN,
      a \in {0, 1, MaxCores}, b \in {0, 2, MaxCores + 1}, n \in 1..MaxFiles }

PoolInit ==
  /\ cfg = [keep |-> TRUE, dry |-> FALSE, under |-> FALSE, mv |-> TRUE]
  /\ enc = [s \in Src |-> "ok"]
  /\ run = 1
  /\ mpc = "done"
  /\ src = [s \in Src |-> TRUE]
  /\ final = Everywhere(NoFile)
  /\ tmp = Everywhere(NoFile)
  /\ marker = Everywhere(NoMarker)
  /\ stats = ZeroStats
  /\ jobs = [photo |-> << >>, video |-> << >>]
  /\ wk = [w \in W |-> IdleWorker]
  /\ hist = ZeroHist
  /\ lm = NoLimiter
  /\ call \in PoolCalls

\* Release without the call of cond.Signal
PoolSignal_Nobody(st) == {st}

\* cond.Signal among the workers: wakes one parked worker, if there is any
PoolSignal(st) ==
  IF \A x \in PW : st[x] # "wait"
  THEN {st}
  ELSE { [st EXCEPT ![x] = "woken"] : x \in { y \in PW : st[y] = "wait" } }

\* cond.Broadcast among the workers
PoolBroadcast(st) == [x \in PW |-> IF st[x] = "wait" THEN "woken" ELSE st[x]]

\* A worker that releases only after a conversion without error
ReleaseAfter_SuccessOnly(err) == ~err

\* The worker calls limiter.Release() after convertFile, on the error path
\* and on the other
ReleaseAfter(err) == TRUE

\* The loop of Acquire for the worker x: take a slot or park
PoolTryEnter(c, x) ==
  IF c.active < c.limit
  THEN [c EXCEPT !.active = @ + 1, !.acq = @ + 1, !.st[x] = "run"]
  ELSE [c EXCEPT !.st[x] = "wait"]

\* jobs <- file meets for filePath := range jobs: the worker x receives a file
PoolTake(x) ==
  /\ call.fn = "convertFiles"
  /\ x <= call.workers
  /\ call.st[x] = "recv"
  /\ call.files > 0
  /\ call' = [call EXCEPT !.files = @ - 1,
                           !.st[x] = IF HasLimiter(call) THEN "acq" ELSE "run"]
  /\ UNCHANGED << pvars, lm >>

\* worker: limiter.Acquire(), the first test of its loop
PoolAcquire(x) ==
  /\ call.fn = "convertFiles"
  /\ call.st[x] = "acq"
  /\ call' = PoolTryEnter(call, x)
  /\ UNCHANGED << pvars, lm >>

\* worker: woken in limiter.Acquire(), it re-tests the loop condition
PoolRecheck(x) ==
  /\ call.fn = "convertFiles"
  /\ call.st[x] = "woken"
  /\ call' = PoolTryEnter(call, x)
  /\ UNCHANGED << pvars, lm >>

\* worker: convertFile returns with or without an error, limiter.Release(),
\* failedFiles++ or processedFiles++
PoolFinish(x) ==
  /\ call.fn = "convertFiles"
  /\ call.st[x] = "run"
  /\ \E err \in BOOLEAN :
       IF HasLimiter(call) /\ ReleaseAfter(err)
       THEN \E st2 \in PoolSignal([call.st EXCEPT ![x] = "recv"]) :
              call' = [call EXCEPT !.active = IF @ > 0 THEN @ - 1 ELSE @,
                                    !.rel = @ + 1,
                                    !.st = st2,
                                    ![CounterFor(err)] = @ + 1]
       ELSE call' = [call EXCEPT !.st[x] = "recv", ![CounterFor(err)] = @ + 1]
  /\ UNCHANGED << pvars, lm >>

\* convertFiles: close(jobs) after the last file has been received
PoolClose ==
  /\ call.fn = "convertFiles"
  /\ call.jobs = "open"
  /\ call.files = 0
  /\ call' = [call EXCEPT !.jobs = "closed"]
  /\ UNCHANGED << pvars, lm >>

\* worker: the channel is closed and drained, wg.Done()
PoolExit(x) ==
  /\ call.fn = "convertFiles"
  /\ x <= call.workers
  /\ call.st[x] = "recv"
  /\ call.jobs = "closed"
  /\ call' = [call EXCEPT !.st[x] = "exit"]
  /\ UNCHANGED << pvars, lm >>

\* convertFiles: wg.Wait() returns, cancelAdjust(), return nil
PoolReturn ==
  /\ call.fn = "convertFiles"
  /\ ~call.returned
  /\ \A x \in PW : x <= call.workers => call.st[x] = "exit"
  /\ call' = [call EXCEPT !.returned = TRUE]
  /\ UNCHANGED << pvars, lm >>

\* runAdaptiveController moves the limit by one between the configured
\* minimum and maximum: SetLimit broadcasts on a raise and signals otherwise
PoolAdjust ==
  /\ call.fn = "convertFiles"
  /\ HasLimiter(call)
  /\ ~call.returned
  /\ \E n \in {call.limit - 1, call.limit + 1} :
        /\ call.aw.min <= n
        /\ n <= call.aw.max
        /\ \E st2 \in (IF n > call.limit THEN {PoolBroadcast(call.st)}
                       ELSE PoolSignal(call.st)) :
             call' = [call EXCEPT !.limit = n, !.st = st2]
  /\ UNCHANGED << pvars, lm >>

PoolNext ==
  \/ \E x \in PW : PoolTake(x)
  \/ \E x \in PW : PoolAcquire(x)
  \/ \E x \in PW : PoolRecheck(x)
  \/ \E x \in PW : PoolFinish(x)
  \/ PoolClose
  \/ \E x \in PW : PoolExit(x)
  \/ PoolReturn
  \/ PoolAdjust

PoolSpec == PoolInit /\ [][PoolNext]_vars

\* Every goroutine that can run does run, and every conversion ends: the
\* encoders end by exit or by their deadline.
PoolFair ==
  /\ PoolSpec
  /\ \A x \in PW :
       /\ WF_vars(PoolTake(x))
       /\ WF_vars(PoolAcquire(x))
       /\ WF_vars(PoolRecheck(x))
       /\ WF_vars(PoolFinish(x))
       /\ WF_vars(PoolExit(x))
  /\ WF_vars(PoolClose)
  /\ WF_vars(PoolReturn)

\* ===================================== the monitor and the controller
\* The two goroutines convertFiles starts beside the workers of an adaptive
\* video pass: ResourceMonitor.Start samples on every tick and publishes on
\* a channel, runAdaptiveController receives and moves the limit; both end
\* on the context that convertFiles cancels when it returns.  MaxTicks
\* bounds the samples taken.
MaxTicks == 3

\* make(chan ResourceSnapshot, 1)
ChanCap == 1

\* The samples a tick can take: busy, neither, comfortable, nothing measured
MonSamples ==
  { [cpuM |-> TRUE, cpu |-> 90, memM |-> TRUE, mem |-> 50],
    [cpuM |-> TRUE, cpu |-> 60, memM |-> TRUE, mem |-> 50],
    [cpuM |-> TRUE, cpu |-> 20, memM |-> TRUE, mem |-> 50],
    [cpuM |-> FALSE, cpu |-> 20, memM |-> FALSE, mem |-> 10] }

NoSample == [n |-> 0, s |-> [cpuM |-> FALSE, cpu |-> 20, memM |-> FALSE, mem |-> 10]]

\* A publish that replaces the pending sample by the new one
AfterPublish_KeepsNewest(ch, snap) == << snap >>

\* select { case out <- snap: default: }: the channel after it
AfterPublish(ch, snap) == IF Len(ch) < ChanCap THEN Append(ch, snap) ELSE ch

\* A monitor that does not look at its context
MonStops_IgnoresCancel(ctx) == FALSE

\* The monitor's case <-ctx.Done()
MonStops(ctx) == ctx = "done"

\* The controller's case <-ctx.Done(), and the receive that finds the
\* channel closed and empty
CtlStops(ctx, closed, ch) == ctx = "done" \/ (closed /\ ch = << >>)

\* runAdaptiveController: limit and streaks after the snapshot s
AfterSnapshot(c, s) ==
  IF IsBusy(s)
  THEN LET high == Streak(c.high + 1)
       IN [c EXCEPT !.high = high, !.low = 0,
                    !.limit = IF BusyLowers(high, c.limit, c.aw.min)
                              THEN ClampLimit(c.limit - 1) ELSE c.limit]
  ELSE IF ~IsComfortable(s)
  THEN [c EXCEPT !.high = 0, !.low = 0]
  ELSE IF ~ComfortStreakDone(c.low + 1)
  THEN [c EXCEPT !.low = Streak(c.low + 1)]
  ELSE [c EXCEPT !.high = 0, !.low = 0,
                 !.limit = IF RaiseAllowed(c.limit, c.aw.max)
                           THEN ClampLimit(c.limit + 1) ELSE c.limit]

\* convertFiles has started the monitor and the controller
MonCalls ==
  { [fn |-> "adaptive", aw |-> c, limit |-> InitialLimit(c), high |-> 0, low |-> 0,
     ctx |-> "live", ch |-> << >>, closed |-> FALSE,
     mon |-> "tick", snap |-> NoSample, ticks |-> 0, ctl |-> "select"] :
      c \in AdaptiveConfigs }

MonInit ==
  /\ cfg = [keep |-> TRUE, dry |-> FALSE, under |-> FALSE, mv |-> TRUE]
  /\ enc = [s \in Src |-> "ok"]
  /\ run = 1
  /\ mpc = "video"
  /\ src = [s \in Src |-> TRUE]
  /\ final = Everywhere(NoFile)
  /\ tmp = Everywhere(NoFile)
  /\ marker = Everywhere(NoMarker)
  /\ stats = ZeroStats
  /\ jobs = [photo |-> << >>, video |-> << >>]
  /\ wk = [w \in W |-> IdleWorker]
  /\ hist = ZeroHist
  /\ lm = NoLimiter
  /\ call \in MonCalls

\* monitor: case <-ticker.C, cpuUsagePercent and memoryAvailablePercent.
\* When the context is done as well, select may still take this case.
MonTick(s) ==
  /\ call.fn = "adaptive"
  /\ call.mon = "tick"
  /\ call.ticks < MaxTicks
  /\ call' = [call EXCEPT !.mon = "publish", !.ticks = @ + 1,
                           !.snap = [n |-> call.ticks + 1, s |-> s]]
  /\ UNCHANGED << pvars, lm >>

\* monitor: the non-blocking send of the sample
MonPublish ==
  /\ call.fn = "adaptive"
  /\ call.mon = "publish"
  /\ call' = [call EXCEPT !.mon = "tick", !.ch = AfterPublish(call.ch, call.snap)]
  /\ UNCHANGED << pvars, lm >>

\* monitor: case <-ctx.Done(), return, the deferred close(out)
MonStop ==
  /\ call.fn = "adaptive"
  /\ call.mon = "tick"
  /\ MonStops(call.ctx)
  /\ call' = [call EXCEPT !.mon = "stopped", !.closed = TRUE]
  /\ UNCHANGED << pvars, lm >>

\* controller: a snapshot received.  When the context is done as well, select
\* may still take this case.
CtlReceive ==
  /\ call.fn = "adaptive"
  /\ call.ctl = "select"
  /\ call.ch # << >>
  /\ call' = [AfterSnapshot(call, Head(call.ch).s) EXCEPT !.ch = Tail(call.ch)]
  /\ UNCHANGED << pvars, lm >>

\* controller: return
CtlStop ==
  /\ call.fn = "adaptive"
  /\ call.ctl = "select"
  /\ CtlStops(call.ctx, call.closed, call.ch)
  /\ call' = [call EXCEPT !.ctl = "stopped"]
  /\ UNCHANGED << pvars, lm >>

\* convertFiles: wg.Wait() has returned, cancelAdjust()
CancelAdjust ==
  /\ call.fn = "adaptive"
  /\ call.ctx = "live"
  /\ call' = [call EXCEPT !.ctx = "done"]
  /\ UNCHANGED << pvars, lm >>

MonNext ==
  \/ \E s \in MonSamples : MonTick(s)
  \/ MonPublish
  \/ MonStop
  \/ CtlReceive
  \/ CtlStop
  \/ CancelAdjust

MonSpec == MonInit /\ [][MonNext]_vars

\* Every goroutine that can run does run, and a select whose ctx.Done()
\* case stays ready takes it in the end.
MonFair ==
  MonSpec /\ WF_vars(MonPublish) /\ SF_vars(MonStop) /\ WF_vars(CtlStop)

\* ------------------------------------------------------------ event logs
Has(ev, e) == \E i \in DOMAIN ev : ev[i] = e
Before(ev, a, b) == \E i, j \in DOMAIN ev : i < j /\ ev[i] = a /\ ev[j] = b
Staged(ev) == Has(ev, "claim") \/ Has(ev, "claimfail")

\* ==================================================================== C1
\* C1: with keep_originals = true no step of a run removes a file of the
\* source tree: every source file that was there is still there.
C1_OriginalsPreserved ==
  cfg.keep => \A s \in Src : src[s]

\* ==================================================================== C2
\* C2: whenever a step of a pipeline execution unlinks an original,
\* keep_originals is false, that execution has renamed its temp file to the
\* final path before, and the output at the final path exists at that moment
\* with a size of at least 1000 bytes; no other pipeline step unlinks one.
C2_GuardedDelete ==
  [][ \A s \in Src :
        (InPass /\ src[s] /\ ~src'[s]) =>
          /\ ~cfg.keep
          /\ \E w \in W : /\ wk[w].file = s
                           /\ wk[w].pc = "delete"
                           /\ Has(wk[w].ev, "rename")
          /\ final[OutPath(s)].ex
          /\ final[OutPath(s)].size >= MinSafeSize ]_vars

\* An original has been unlinked by the guarded delete, and another
\* execution has kept its original because the output was too small.
C2_Witness ==
  /\ \E u \in hist.unl : ~src[u.src]
  /\ \E w \in W : Has(wk[w].ev, "nodelete") /\ src[wk[w].file]

\* ==================================================================== C3
\* C3: a file that has come into existence at a final output path holds a
\* content that passed VerifyOutputFile as <output>.tmp and has not been
\* written since: nobody sees a partial or unverified file there.
C3_OnlyVerifiedPublished ==
  \A p \in Paths : (final[p].ex /\ ~final[p].pre) => final[p].ver

C5_ReleaseBeforeDelete ==
  \A w \in W :
    (Has(wk[w].ev, "delete") \/ Has(wk[w].ev, "nodelete")) =>
      (Before(wk[w].ev, "release", "delete") \/ Before(wk[w].ev, "release", "nodelete"))

\* C5 as amended: with keep_originals = false an execution that has
\* published runs the guarded delete after the rename and before it releases
\* the marker; the release is part of the deferred cleanup and comes last.
C5_DeleteBeforeRelease ==
  \A w \in W :
    /\ (~cfg.keep /\ Has(wk[w].ev, "rename") /\ Has(wk[w].ev, "release")) =>
          \/ Before(wk[w].ev, "delete", "release")
          \/ Before(wk[w].ev, "nodelete", "release")
    /\ (Has(wk[w].ev, "delete") \/ Has(wk[w].ev, "nodelete")) =>
          /\ ~cfg.keep
          /\ Before(wk[w].ev, "rename", "delete") \/ Before(wk[w].ev, "rename", "nodelete")
          /\ ~Before(wk[w].ev, "release", "delete")
          /\ ~Before(wk[w].ev, "release", "nodelete")

\* An execution has run the guarded delete, unlinked its original and then
\* released the marker.
C5_Witness ==
  \E w \in W :
    /\ wk[w].pc = "ret"
    /\ Before(wk[w].ev, "delete", "release")
    /\ ~src[wk[w].file]

\* ==================================================================== C6
\* C6: when an execution that has passed the marker claim returns, whatever
\* the way it ends, neither the marker it wrote nor the temp file its encoder
\* wrote exists.
C6_NothingLeftBehind ==
  \A w \in W :
    (wk[w].pc = "ret" /\ Staged(wk[w].ev)) =>
      LET f == wk[w].file
          p == OutPath(f)
      IN /\ ~(marker[p].ex /\ marker[p].by = f /\ marker[p].run = run)
         /\ ~(tmp[p].ex /\ tmp[p].by = f)

\* An execution returns after a failed rename, which left its verified temp
\* file for the deferred cleanup to remove.
C6_Witness ==
  \E w \in W :
    /\ wk[w].pc = "ret"
    /\ Has(wk[w].ev, "claim")
    /\ Has(wk[w].ev, "renamefail")
    /\ wk[w].err

SecondRun ==
  /\ hist.prevEnd = "done"
  /\ hist.startSrc = hist.prevStartSrc
  /\ \A s \in Src : src[s] = hist.startSrc[s]

\* C8: a second run over the unchanged source publishes no file, starts no
\* encoder for an output the first run left published and deletes no
\* published file, and ends with the destination state the first run left.
C8_Idempotent ==
  SecondRun =>
    /\ hist.act = ZeroAct
    /\ mpc = "done" => \A p \in Paths : final[p].ex = hist.prevFinal[p].ex

\* ==================================================================== C9
\* C9: at the end of a second run over the unchanged source the processed
\* count is 0 and the skipped count is the processed count of the first run.
C9_SecondRunCounts ==
  (SecondRun /\ mpc = "done" /\ ~cfg.dry) =>
    /\ stats.processed = 0
    /\ stats.skipped = hist.prevStats.processed

\* =================================================================== C10
\* Between its marker claim and its marker release
InCritical(w) == wk[w].pc \in {"start", "encoding", "verify", "rename", "delete", "cleanup"}

\* C10: no two executions are between marker claim and marker release for
\* the same output path at the same time.
C10_MarkerExclusive ==
  \A v, w \in W :
    (v # w /\ InCritical(v) /\ InCritical(w)) => OutPath(wk[v].file) # OutPath(wk[w].file)

\* =================================================================== C11
\* C11: a source is skipped as already converted only when the output at
\* its planned name is its own or was there before the first run; a source
\* whose planned name another source has taken is published under a name
\* of its own, so after a completed first run in which both encoders work
\* each of the two photo sources has a published output of its own.
C11_VariantPerSource ==
  /\ \A w \in W :
        (wk[w].pc = "ret" /\ Has(wk[w].ev, "skip")) =>
          final[OutPath(wk[w].file)].by \in {0, wk[w].file}
  /\ (mpc = "done" /\ run = 1 /\ ~cfg.dry /\ cfg.mv /\ enc[1] = "ok" /\ enc[2] = "ok") =>
        \A s \in {1, 2} : \E p \in Paths : final[p].ex /\ final[p].by \in {0, s}

\* =================================================================== C12
\* C12: a goroutine comes out of Acquire only in a step taken while
\* active < limit, and this step raises active by exactly one; a goroutine
\* that calls Acquire, or is woken in it, while active >= limit is parked.
C12_AcquireAdmits ==
  [][ \A x \in G :
        /\ (lm.g[x] # "in" /\ lm'.g[x] = "in") =>
              /\ lm.active < lm.limit
              /\ lm'.active = lm.active + 1
        /\ (lm.g[x] \in {"out", "woken"} /\ lm'.g[x] # lm.g[x] /\ lm.active >= lm.limit) =>
              /\ lm'.g[x] = "wait"
              /\ lm'.active = lm.active ]_vars

\* The limiter is full at a limit of two or more, one holder got its slot
\* after having been parked, and another goroutine is parked.
C12_Witness ==
  /\ lm.limit >= 2
  /\ lm.active = lm.limit
  /\ \E x \in Holders(lm) : lm.blk[x]
  /\ Waiting(lm) # {}

\* =================================================================== C13
\* Slots that are free
FreeSlots(l) == l.limit - l.active

\* C13: no wake-up is lost.  Whenever a goroutine is parked in Acquire, at
\* least as many goroutines have been woken and are about to re-test as
\* there are free slots (so a raise of the limit by m wakes m waiters, or
\* all of them); and whenever a goroutine is blocked in Acquire while
\* active < limit, a blocked goroutine is admitted, unless the slot is gone
\* before (taken by a new Acquire, or removed by a lower limit).
C13_NoLostWakeup ==
  /\ [](Waiting(lm) # {} => Cardinality(Woken(lm)) >= FreeSlots(lm))
  /\ ((Blocked(lm) # {} /\ HasSlot(lm)) ~> (lm.last.op = "admit" \/ ~HasSlot(lm)))

\* After a raise of the limit two goroutines that were parked hold a slot,
\* the second admitted just now.
C13_Witness ==
  /\ lm.last.op = "admit"
  /\ lm.mode = "api"
  /\ Cardinality({ x \in Holders(lm) : lm.blk[x] }) >= 2

Settled(l) == Woken(l) = {}

Max2(a, b) == IF a > b THEN a ELSE b

\* C15 as stated: once the goroutines woken by SetLimit(k), called with
\* n > k goroutines blocked in Acquire, have settled (no Release and no new
\* Acquire since), exactly k acquirers are active and n - k goroutines are
\* still blocked.
C15_ExactlyKActive ==
  (lm.sl.ok /\ lm.sl.n > lm.sl.k /\ Settled(lm)) =>
    /\ lm.active = lm.sl.k
    /\ Cardinality(Blocked(lm)) = lm.sl.n - lm.sl.k

\* C15 as amended: SetLimit(k) called with h holders and n > k goroutines
\* blocked in Acquire is followed (no Release, no new Acquire and no other
\* SetLimit since) by a settled state, and in it max(k, h) acquirers are active, the h
\* holders among them, and the other n - (max(k, h) - h) goroutines are
\* still blocked; a later raise of the limit leaves no goroutine parked.
C15_SettlesAtLimit ==
  /\ []((lm.sl.ok /\ lm.sl.n > lm.sl.k /\ Settled(lm)) =>
          /\ lm.active = Max2(lm.sl.k, lm.sl.h)
          /\ Cardinality(Blocked(lm)) = lm.sl.n - (Max2(lm.sl.k, lm.sl.h) - lm.sl.h))
  /\ \A b \in {0, 1} :
        (lm.sl.ok /\ lm.sl.gen = b) ~> (Settled(lm) \/ ~lm.sl.ok \/ lm.sl.gen # b)
  /\ [][lm'.limit > lm.limit => Waiting(lm') = {}]_vars

\* SetLimit(2) found one holder and two blocked goroutines; one of them has
\* been admitted and the other is parked again.
C15_Witness ==
  /\ lm.sl.ok
  /\ lm.sl.n > lm.sl.k
  /\ lm.sl.k > lm.sl.h
  /\ Settled(lm)
  /\ lm.active = lm.sl.k
  /\ Waiting(lm) # {}

\* =================================================================== C16
\* C16: in the adaptive video pass the limit of the limiter is between the
\* configured minimum and maximum numbers of workers, from the initial
\* limit on and after every snapshot.
C16_LimitWithinBounds ==
  lm.mode = "pass" => (lm.min <= lm.limit /\ lm.limit <= lm.max)

\* The controller has just lowered the limit to a minimum above 1, after
\* having raised it before.
C16_Witness ==
  /\ lm.mode = "pass"
  /\ lm.last.op = "snap"
  /\ lm.min >= 2
  /\ lm.limit = lm.min
  /\ lm.last.from = lm.min + 1

\* =================================================================== C17
\* C17: every busy snapshot lowers the limit by exactly 1 when the limit is
\* above the minimum and leaves it unchanged when it is at the minimum.
C17_BusyLowersByOne ==
  [][ (lm'.last.op = "snap" /\ lm'.last.busy) =>
        lm'.limit = (IF lm.limit > lm.min THEN lm.limit - 1 ELSE lm.limit) ]_vars

\* With min 1 and max 3 a second busy snapshot in a row has brought the
\* limit from 2 to 1.
C17_Witness ==
  /\ lm.mode = "pass"
  /\ lm.min = 1
  /\ lm.max = 3
  /\ lm.last.op = "snap"
  /\ lm.last.busy
  /\ lm.high >= 2
  /\ lm.last.from = 2
  /\ lm.limit = 1

\* =================================================================== C18
\* C18: the controller raises the limit only by 1, only below the maximum
\* and only on a comfortable snapshot that is the second, fourth, ... of a
\* row of comfortable snapshots; and on every such snapshot it raises the
\* limit when it is below the maximum.
C18_RaiseOnSecondComfortable ==
  [][ lm.mode = "pass" =>
        /\ (lm'.limit > lm.limit) =>
              /\ lm'.limit = lm.limit + 1
              /\ lm.limit < lm.max
              /\ lm'.last.op = "snap"
              /\ lm'.last.comf
              /\ lm.hcomf % 2 = 1
        /\ (lm'.last.op = "snap" /\ lm'.last.comf /\ lm.hcomf % 2 = 1 /\ lm.limit < lm.max) =>
              lm'.limit = lm.limit + 1 ]_vars

\* The fourth comfortable snapshot in a row has raised the limit for the
\* second time.
C18_Witness ==
  /\ lm.mode = "pass"
  /\ lm.last.op = "snap"
  /\ lm.last.comf
  /\ lm.hcomf = 0
  /\ lm.limit = lm.last.from + 1
  /\ lm.limit >= lm.min + 2

\* =================================================================== C19
\* C19: when recovery has finished no temp file and no marker left over
\* from before this run is in the destination tree, and the cleaned
\* statistic counts every temp file and every marker recovery removed.
C19_RecoveryCountsCleaned ==
  mpc = "diskcheck" =>
    /\ \A p \in Paths : ~tmp[p].ex /\ ~(marker[p].ex /\ marker[p].run # run)
    /\ stats.cleaned >= hist.rec.tmps + hist.rec.markers

TruncatedAtStart ==
  /\ run = 1
  /\ ~cfg.dry
  /\ ~cfg.under
  /\ cfg.mv
  /\ hist.rec.corrupt = 1
  /\ EncExitOK(enc[1])

\* C21: a run that finds a corrupt published output deletes it in its
\* recovery and counts it as recovered once; when the run has completed the
\* output is published again at the same path with a content that passed
\* verification, and recovered is still 1.
C21_CorruptOutputReencoded ==
  /\ (TruncatedAtStart /\ mpc = "diskcheck") => (~final[P1].ex /\ stats.recovered = 1)
  /\ (TruncatedAtStart /\ mpc = "done") =>
        /\ final[P1].ex
        /\ final[P1].ver
        /\ ~IsFileCorrupted(final[P1])
        /\ stats.recovered = 1

\* =================================================================== C22
\* The execution of w has had its encoder cancelled at the deadline
TimedOut(w) == Has(wk[w].ev, "enctimeout")

\* C22: an execution whose encoder is still running when its deadline
\* expires gets, unless the process is killed, to the point where
\* convertFile returns an error; it has then renamed nothing, no
\* <output>.tmp and no marker is left at its output path, and the worker
\* counts it as failed and not as processed; the recovery of the next run
\* finds neither a temp file nor a marker at that path.
C22_TimeoutFails ==
  /\ \A w \in W :
        (wk[w].pc = "encoding" /\ enc[wk[w].file] = "hang") ~>
          (mpc = "killed" \/ (wk[w].pc = "ret" /\ wk[w].err /\ TimedOut(w)))
  /\ [](\A w \in W :
          (wk[w].pc = "ret" /\ TimedOut(w)) =>
            /\ wk[w].err
            /\ ~Has(wk[w].ev, "rename")
            /\ ~final[OutPath(wk[w].file)].ex
            /\ ~tmp[OutPath(wk[w].file)].ex
            /\ ~marker[OutPath(wk[w].file)].ex)
  /\ [][ \A w \in W :
           (wk[w].pc = "ret" /\ TimedOut(w) /\ wk'[w].pc # "ret") =>
             \/ mpc' = "killed"
             \/ /\ stats'.failed = stats.failed + 1
                /\ stats'.processed = stats.processed ]_vars
  /\ []((run > 1 /\ hist.prevEnd = "done" /\ ~cfg.dry /\ mpc = "recovery") =>
          (~tmp[P3].ex /\ ~marker[P3].ex))

\* The run after a completed run in which the video encoder was cancelled
\* at its deadline: its recovery has found no temp file and no marker.
C22_Witness ==
  /\ run = 2
  /\ mpc = "diskcheck"
  /\ hist.prevEnd = "done"
  /\ ~cfg.dry
  /\ enc[3] = "hang"
  /\ hist.prevStats.failed >= 1
  /\ hist.rec.tmps = 0
  /\ hist.rec.markers = 0

\* =================================================================== C23
\* C23: whenever VerifyOutputFile has returned an error, whatever the cause
\* (empty output, output below the ratio, decoder failure, input that
\* cannot be stat-ed, unknown kind), the output file does not exist.
C23_FailedVerifyUnlinks ==
  (call.fn = "VerifyOutputFile" /\ call.done /\ call.err # "nil") => ~call.out.ex

\* C23 as amended: whenever VerifyOutputFile has returned an error because
\* the output is missing, empty, below ratio x input size or rejected by
\* the decoder, the output file does not exist; when it has returned an
\* error because the input cannot be stat-ed or the kind is unknown, the
\* output file is as it was at the call.
C23_RejectedOutputUnlinked ==
  (call.fn = "VerifyOutputFile" /\ call.done) =>
    /\ call.err \in {"missing", "empty", "small", "corrupt"} => ~call.out.ex
    /\ call.err \in {"nostat", "unknown"} => (call.out = call.was /\ call.out.ex)
    /\ call.err = "nil" => call.out.ex

\* VerifyOutputFile has returned "too small" for a decodable 500-byte webp
\* made from a 2,000,000-byte input, and the file is gone.
C23_Witness ==
  /\ call.fn = "VerifyOutputFile"
  /\ call.done
  /\ call.err = "small"
  /\ call.was.ex
  /\ call.was.dec
  /\ ~call.out.ex

\* =================================================================== C24
\* C24: when the guarded delete finds its predicate false (the published
\* output missing or below 1000 bytes), the step removes neither the
\* original nor the published output and the run stays in its pass; the
\* execution returns without an error, with its original still there, and
\* the worker counts it as processed and not as failed.
C24_SafetyAbortNotFatal ==
  /\ [](\A w \in W :
          (wk[w].pc = "ret" /\ Has(wk[w].ev, "nodelete")) =>
            (~wk[w].err /\ src[wk[w].file]))
  /\ [][ \A w \in W :
           /\ (wk[w].pc = "delete" /\ wk'[w].pc # "delete" /\ mpc' # "killed"
                 /\ ~SafeDeleteAllows(final[OutPath(wk[w].file)])) =>
                /\ src' = src
                /\ final' = final
                /\ mpc' = mpc
                /\ jobs' = jobs
                /\ ~wk'[w].err
                /\ Has(wk'[w].ev, "nodelete")
           /\ (wk[w].pc = "ret" /\ Has(wk[w].ev, "nodelete") /\ wk'[w].pc # "ret"
                 /\ mpc' # "killed") =>
                /\ stats'.processed = stats.processed + 1
                /\ stats'.failed = stats.failed ]_vars

\* An execution whose deletion was refused because the published output
\* has 500 bytes has returned; output and original are there, and a file
\* of the pass is still waiting for a worker.
C24_Witness ==
  \E w \in W :
    /\ wk[w].pc = "ret"
    /\ Has(wk[w].ev, "nodelete")
    /\ final[OutPath(wk[w].file)].ex
    /\ final[OutPath(wk[w].file)].size < MinSafeSize
    /\ src[wk[w].file]
    /\ jobs[mpc] # << >>

\* =================================================================== C25
\* The files in the hands of a worker
Busy == { w \in W : wk[w].pc # "idle" }

PhaseAfter(ph) ==
  CASE ph = "recovery" -> {"diskcheck"}
    [] ph = "diskcheck" -> {"safety", "aborted"}
    [] ph = "safety" -> {"discover", "aborted"}
    [] ph = "discover" -> {"photo"}
    [] ph = "photo" -> {"video", "killed"}
    [] ph = "video" -> {"report", "killed"}
    [] ph = "report" -> {"done"}
    [] OTHER -> {"recovery"}

\* C27: a run goes through recovery, disk-space precheck, safety probe,
\* discovery, photo pass, video pass and final report in this order; a
\* worker has a file in hand only during the passes, a photo during the
\* photo pass and a video during the video pass, so that no execution
\* starts before recovery has finished and every photo execution has
\* returned before the first video execution starts; and the report comes
\* when every file is counted and no worker has a file in hand.
C27_PhaseOrder ==
  /\ [][mpc' # mpc => mpc' \in PhaseAfter(mpc)]_vars
  /\ [](\A w \in W : wk[w].pc # "idle" => (InPass /\ Kind(wk[w].file) = mpc))
  /\ [](mpc \in {"recovery", "diskcheck", "safety"} =>
          (stats.total = 0 /\ jobs = [photo |-> << >>, video |-> << >>]))
  /\ [](mpc = "video" => jobs.photo = << >>)
  /\ [](mpc \in {"report", "done"} =>
          /\ jobs = [photo |-> << >>, video |-> << >>]
          /\ \A w \in W : wk[w].pc = "idle"
          /\ stats.processed + stats.failed = stats.total)

\* The video pass has started its first encoder after both photo
\* executions have returned, one of them with an error.
C27_Witness ==
  /\ mpc = "video"
  /\ \E w \in W : wk[w].pc = "encoding" /\ wk[w].file = 3
  /\ stats.processed + stats.failed = 2
  /\ stats.failed >= 1

\* =================================================================== C28
\* The workers that are in convertFile
Running == { x \in PW : call.st[x] = "run" }

\* C28: the number of conversions running at the same time is at most
\* max_jobs in the photo pass, at most min(max_jobs, 2) in the video pass
\* without adaptive mode, and at most the adaptive maximum, which is at
\* most max_jobs, in the video pass with adaptive mode.
C28_ConcurrencyCeilings ==
  call.fn = "convertFiles" =>
    /\ call.kind = "photo" => Cardinality(Running) <= call.maxJobs
    /\ (call.kind = "video" /\ ~call.adaptive) =>
          Cardinality(Running) <= Min({call.maxJobs, 2})
    /\ (call.kind = "video" /\ call.adaptive) =>
          /\ Cardinality(Running) <= call.aw.max
          /\ call.aw.max <= call.maxJobs

\* A video pass without adaptive mode and with max_jobs 3 has two
\* conversions running and a file waiting in the channel.
C28_Witness ==
  /\ call.fn = "convertFiles"
  /\ call.kind = "video"
  /\ ~call.adaptive
  /\ call.maxJobs = 3
  /\ Cardinality(Running) = 2
  /\ call.files > 0

\* =================================================================== C29
\* C29: with dry_run = true no step of a run creates, deletes or modifies
\* a file of the source tree or of the destination tree (published
\* outputs, temp files, markers), and no execution writes a marker or
\* starts an encoder.
C29_DryRunChangesNothing ==
  [][ cfg.dry =>
        /\ src' = src
        /\ final' = final
        /\ tmp' = tmp
        /\ marker' = marker
        /\ \A w \in W : ~Has(wk'[w].ev, "claim") /\ ~Has(wk'[w].ev, "encstart") ]_vars

\* =================================================================== C30
\* The closed interval of valid capture dates, [1990-01-01, now]
InRange(d) == MinDate <= d /\ d <= Now

\* What the four sources hand to GetFileDate, in the order of the claim:
\* platform metadata, photo metadata, video container metadata, mtime
SourceYields(c) ==
  << getMacOSMetadataDate(c),
     getImageMetadataDate(c),
     getVideoMetadataDate(c),
     IF c.stat.st = "fail" THEN NotGot ELSE Got(c.stat.at) >>

ValidSources(c) ==
  { k \in 1..4 : ~SourceYields(c)[k].err /\ InRange(SourceYields(c)[k].date) }

FirstValidSource(c) ==
  CHOOSE k \in ValidSources(c) : \A j \in ValidSources(c) : k <= j

\* C30: when GetFileDate has returned, either some source yields a date
\* within [1990, now] and the date returned is that of the first such source
\* in the order platform metadata, photo metadata, video metadata, mtime,
\* the conversion going on; or no source does, and an error is returned with
\* no date: not the current one, and the worker counts the file as failed.
C30_FirstValidDateOrFailed ==
  (call.fn = "GetFileDate" /\ call.done) =>
    IF ValidSources(call) # {}
    THEN /\ call.err = "nil"
         /\ call.date = SourceYields(call)[FirstValidSource(call)].date
         /\ call.ret = "goes on"
    ELSE /\ call.err # "nil"
         /\ call.date # Now
         /\ call.date = ZeroTime
         /\ call.ret = "unable to determine file date"
         /\ call.counter = "failed"

\* On macOS mdls gave 1989, the photo's first EXIF field gives 2015 and the
\* modification time is in range too: the photo's date is the one returned.
C30_Witness ==
  /\ call.fn = "GetFileDate"
  /\ call.done
  /\ call.goos = "darwin"
  /\ call.mdls = Reading("date", 1989)
  /\ call.ext = "jpg"
  /\ call.exif[1] = Reading("date", 2015)
  /\ call.stat = Reading("date", MinDate)
  /\ call.err = "nil"
  /\ call.date = 2015

\* =================================================================== C31
\* The day of 1990-01-01 and the current day of a machine in zone loc
FirstDay == FormatDay(MinTime)
CurrentDay(loc) == FormatDay(NowIn(loc))

\* C31: whenever a destination has been planned for a date the resolver
\* accepted, whatever the date's time-zone offset, the day written into the
\* directory and the day written into the filename are not earlier than
\* 1990-01-01 and not later than the current date.
C31_PlannedDateInRange ==
  (call.fn = "PlanDestination" /\ call.done /\ call.err = "nil") =>
    /\ FirstDay <= call.dirDay /\ call.dirDay <= CurrentDay(call.loc)
    /\ FirstDay <= call.nameDay /\ call.nameDay <= CurrentDay(call.loc)

\* =================================================================== C32
AllIn(str, chars) == \A i \in 1..Len(str) : str[i] \in chars

\* ^\d{4}-\d{2}-\d{2}_[A-Za-z0-9._-]+_\d{3}\.[a-z0-9]+$ : j is the last
\* position of the stem
MatchesPattern(str) ==
  /\ Len(str) >= 18
  /\ AllIn(SubSeq(str, 1, 4), Digits) /\ str[5] = "-"
  /\ AllIn(SubSeq(str, 6, 7), Digits) /\ str[8] = "-"
  /\ AllIn(SubSeq(str, 9, 10), Digits) /\ str[11] = "_"
  /\ \E j \in 12..(Len(str) - 6) :
       /\ AllIn(SubSeq(str, 12, j), KeptChars)
       /\ str[j + 1] = "_"
       /\ AllIn(SubSeq(str, j + 2, j + 4), Digits)
       /\ str[j + 5] = "."
       /\ AllIn(SubSeq(str, j + 6, Len(str)), LowerLetters \cup Digits)

\* C32: for every source name and every valid date, the filename that
\* CleanFilename has built matches the pattern: a date, a non-empty
\* sanitized stem, a three-digit counter and the output extension.
C32_FilenameMatchesPattern ==
  (call.fn = "CleanFilename" /\ call.done) => MatchesPattern(call.out)

\* =================================================================== C33
\* C33: the monitor holding a sample can always publish; the channel never
\* holds more than one snapshot; a publish that finds the slot full leaves
\* the pending older snapshot in the channel and drops the new one, and a
\* publish that finds it empty puts the new one there.
C33_PublishNeverBlocks ==
  /\ [](call.fn = "adaptive" => Len(call.ch) <= 1)
  /\ []((call.fn = "adaptive" /\ call.mon = "publish") => ENABLED MonPublish)
  /\ [][ (call.fn = "adaptive" /\ call.mon = "publish" /\ call'.mon = "tick") =>
           IF call.ch # << >>
           THEN call'.ch = call.ch /\ call.snap.n > Head(call.ch).n
           ELSE call'.ch = << call.snap >> ]_vars

\* The third sample has just been dropped: the first is still pending.
C33_Witness ==
  /\ call.fn = "adaptive"
  /\ call.mon = "tick"
  /\ call.ticks = 3
  /\ call.snap.n = 3
  /\ call.ch # << >>
  /\ Head(call.ch).n = 1

\* =================================================================== C34
AllStopped ==
  call.mon = "stopped" /\ call.closed /\ call.ctl = "stopped"

\* C34: once convertFiles has cancelled the context, the monitor stops and
\* closes the channel and the controller stops; the controller stops only
\* when the context is done or the channel is closed and empty; and once it
\* has stopped the limit does not change any more.
C34_ControllerStops ==
  /\ (call.fn = "adaptive" /\ call.ctx = "done") ~> AllStopped
  /\ [][ (call.ctl = "select" /\ call'.ctl = "stopped") =>
           (call.ctx = "done" \/ (call.closed /\ call.ch = << >>)) ]_vars
  /\ [][ call.ctl = "stopped" =>
           (call'.ctl = "stopped" /\ call'.limit = call.limit) ]_vars

\* Everything has stopped with a snapshot left unread in the channel.
C34_Witness ==
  /\ call.fn = "adaptive"
  /\ call.ctx = "done"
  /\ AllStopped
  /\ call.ch # << >>
  /\ call.ticks >= 1

Skipped(w) == Has(wk[w].ev, "skip")

\* C38: the step in which a pipeline execution finds its planned output
\* existing and valid ends the execution (unless the process is killed
\* before it is taken): it returns without an error, and
\* it changes no original, no published file, no temp file and no marker
\* and no counter but skipped, which it raises by one; an execution that
\* has skipped has claimed no marker, started no encoder and deleted
\* nothing, whatever keep_originals is.
C38_SkipTouchesNothing ==
  /\ [][ \A w \in W :
           (wk[w].pc = "check" /\ ~IsFileCorrupted(final[OutPath(wk[w].file)])) =>
             ((wk'[w].pc # "check" /\ mpc' # "killed") =>
                /\ wk'[w].pc = "ret"
                /\ ~wk'[w].err
                /\ src' = src /\ final' = final /\ tmp' = tmp /\ marker' = marker
                /\ stats' = [stats EXCEPT !.skipped = @ + 1]) ]_vars
  /\ [](\A w \in W : Skipped(w) => wk[w].ev = << "skip" >> /\ wk[w].pc \in {"ret", "idle"})

\* With keep_originals = false an execution has skipped and returned: its
\* original is still there, and so is the output it found.
C38_Witness ==
  /\ ~cfg.keep
  /\ \E w \in W :
       /\ wk[w].pc = "ret"
       /\ Skipped(w)
       /\ src[wk[w].file]
       /\ final[OutPath(wk[w].file)].ex
       /\ stats.skipped >= 1

\* =================================================================== C36
\* C36: in the adaptive video pass, at every moment, active is the number
\* of Acquire calls that have returned minus the number of Release calls,
\* it is the number of workers in convertFile, and it is not negative;
\* every conversion that has ended, with or without an error, has been
\* followed by one Release; and when convertFiles has returned active is 0.
C36_AcquireReleasePaired ==
  (call.fn = "convertFiles" /\ HasLimiter(call)) =>
    /\ call.active = call.acq - call.rel
    /\ call.active = Cardinality(Running)
    /\ call.active >= 0
    /\ call.rel = call.processed + call.failed
    /\ call.returned => (call.active = 0 /\ call.acq = call.total /\ call.rel = call.total)

\* An adaptive pass has returned after a conversion that failed and one
\* that did not.
C36_Witness ==
  /\ call.fn = "convertFiles"
  /\ HasLimiter(call)
  /\ call.returned
  /\ call.failed >= 1
  /\ call.processed >= 1
  /\ call.active = 0

\* =================================================================== C37
PoolBlocked(x) == call.st[x] \in {"wait", "woken"}

\* C37: a pass ends.  convertFiles returns in the end; every worker blocked
\* in Acquire is admitted in the end, whatever the controller does to the
\* limit; the channel is closed only after the last file has been
\* received, and every file is received once: when convertFiles has
\* returned every worker has left its loop, no conversion is running and
\* the conversions counted are the files of the pass.
C37_PassTerminates ==
  /\ (call.fn = "convertFiles") ~> call.returned
  /\ \A x \in PW : (call.fn = "convertFiles" /\ PoolBlocked(x)) ~> (call.st[x] = "run")
  /\ [](call.fn = "convertFiles" =>
          /\ call.jobs = "closed" => call.files = 0
          /\ call.returned =>
               /\ call.jobs = "closed"
               /\ \A x \in PW : call.st[x] \in {"exit", "recv"} /\ (x <= call.workers => call.st[x] = "exit")
               /\ call.processed + call.failed = call.total)

\* Three workers for a maximum of 3: the controller has lowered the limit
\* to the minimum of 1 while two conversions run, and the third worker is
\* parked in Acquire.
C37_Witness ==
  /\ call.fn = "convertFiles"
  /\ HasLimiter(call)
  /\ call.workers = 3
  /\ call.aw.min = 1
  /\ call.limit = 1
  /\ call.active = 2
  /\ \E x \in PW : call.st[x] = "wait"

\* =================================================================== C39
\* The configured minimum clamped to [1, max]
MinClamped(l) ==
  LET m == IF l.min < 1 THEN 1 ELSE l.min
  IN IF m > l.max THEN l.max ELSE m

\* C39: an adaptive video pass has as many workers as the adaptive maximum
\* and starts with the limit at the configured minimum clamped to
\* [1, max]; as long as the controller has not received two comfortable
\* snapshots in a row the limit is at most that minimum and at most that
\* many workers hold a slot.
C39_StartsAtMin ==
  lm.mode = "pass" =>
    /\ lm.workers = lm.max
    /\ lm.last.op = "none" => lm.limit = MinClamped(lm)
    /\ ~lm.two =>
         /\ lm.limit <= MinClamped(lm)
         /\ lm.active <= MinClamped(lm)
         /\ Cardinality(Holders(lm)) <= MinClamped(lm)

\* Three workers, minimum 1: one holds the slot and the two others are
\* parked, after a single comfortable snapshot.
C39_Witness ==
  /\ lm.mode = "pass"
  /\ lm.workers = 3
  /\ lm.min = 1
  /\ ~lm.two
  /\ lm.hcomf = 1
  /\ lm.active = 1
  /\ Cardinality(Waiting(lm)) = 2

\* =================================================================== C40
\* C40: when no snapshot has a CPU or a memory reading, every snapshot is
\* comfortable and none is busy; a snapshot never lowers the limit, every
\* second one raises it by one while it is below the maximum, the others
\* leave it as it is, and in the end the limit is at the maximum for good.
C40_BlindControllerClimbs ==
  /\ [][ lm'.last.op = "snap" =>
           /\ lm'.last.comf /\ ~lm'.last.busy
           /\ lm'.limit >= lm.limit
           /\ lm'.hcomf % 2 = 1 => lm'.limit = lm.limit
           /\ lm'.hcomf % 2 = 0 =>
                lm'.limit = (IF lm.limit < lm.max THEN lm.limit + 1 ELSE lm.max) ]_vars
  /\ <>[](lm.limit = lm.max)

\* The fourth snapshot in a row has just raised the limit from 2 to the
\* maximum of 3.
C40_Witness ==
  /\ lm.mode = "pass"
  /\ lm.last.op = "snap"
  /\ lm.hcomf = 0
  /\ lm.last.from = 2
  /\ lm.limit = 3
  /\ lm.max = 3
  /\ lm.min = 1

====
